---- MODULE Spec2Model ----
(***************************************************************************)
(* The workflow execution engine (WorkflowEngine): one run() of a graph of *)
(* nodes and edges, with the recursive executeNode() unfolded into an      *)
(* explicit call stack.  Strings that the engine trims or looks up by name *)
(* (variable names, field names) are sequences of one-character strings;  *)
(* JavaScript values are tagged records.                                   *)
(***************************************************************************)
EXTENDS Integers, Sequences, FiniteSets, TLC

VARIABLES
    nodes,          \* this.nodes: the engine's private copy of the node list
    edges,          \* this.edges: the edge list, in declaration order
    logs,           \* this.logs
    variables,      \* this.variables: entries in insertion order
    stack,          \* the executeNode() activations, innermost last
    runPc,          \* where run() is: "init", "executing", "done", "threw"
    nodes0,         \* the node list handed to the constructor
    events,         \* history: every status transition of an execution
    setNodesCalls,  \* history: number of calls of the status sink
    resets,         \* history: number of times this.variables was cleared
    setNodesArg,    \* history: the node list of the last call of the status sink
    logSink,        \* history: the calls of the log sink
    aiCalls,        \* history: the node data handed to executeAiNode
    writes,         \* history: the assignments to this.variables since the reset
    apiKey          \* whether process.env.API_KEY is set

vars == <<nodes, edges, logs, variables, stack, runPc, nodes0, events,
          setNodesCalls, resets, setNodesArg, logSink, aiCalls, writes, apiKey>>

-----------------------------------------------------------------------------
(* Bounds *)

MaxEdges == 3       \* longest edge list drawn
MaxDepth == 4       \* deepest nesting of executeNode() activations followed
MaxRejectingEdges == 2  \* longest edge list drawn with a service rejecting in every way

-----------------------------------------------------------------------------
(* JavaScript values *)

Null == [t |-> "null", s |-> "null", f |-> <<>>]
Str(s) == [t |-> "string", s |-> s, f |-> <<>>]
Num(s) == [t |-> "number", s |-> s, f |-> <<>>]
Obj(f) == [t |-> "object", s |-> "", f |-> f]
Undefined == [t |-> "undefined", s |-> "undefined", f |-> <<>>]

\* typeof v === 'object' (true of null as well)
TypeofObject(v) == v.t \in {"object", "null"}

\* Error objects, by their message: the fixed text, and in name the characters
\* interpolated in it (a variable name, or the text of another error)
NoMessage == [kind |-> "undefined", name |-> <<>>, avail |-> <<>>, text |-> ""]
ErrorMessage(text) == [kind |-> "Error", name |-> <<>>, avail |-> <<>>, text |-> text]

\* String.prototype.trim on a sequence of characters
RECURSIVE TrimStart(_)
TrimStart(s) == IF s # <<>> /\ Head(s) = " " THEN TrimStart(Tail(s)) ELSE s

RECURSIVE TrimEnd(_)
TrimEnd(s) ==
    IF s # <<>> /\ s[Len(s)] = " " THEN TrimEnd(SubSeq(s, 1, Len(s) - 1)) ELSE s

Trim(s) == TrimEnd(TrimStart(s))

\* String.prototype.includes, for a non-empty sub
Includes(s, sub) ==
    \E i \in 1..(Len(s) - Len(sub) + 1) : SubSeq(s, i, i + Len(sub) - 1) = sub

-----------------------------------------------------------------------------
(* The Variable Environment: this.variables *)

RECURSIVE KeyIndex(_, _)
KeyIndex(env, name) ==
    IF env = <<>> THEN 0
    ELSE IF env[Len(env)].k = name THEN Len(env)
    ELSE KeyIndex(SubSeq(env, 1, Len(env) - 1), name)

\* this.variables.hasOwnProperty(name)
HasOwn(env, name) == KeyIndex(env, name) # 0

\* this.variables[name]
Lookup(env, name) == env[KeyIndex(env, name)].v

\* Object.keys(this.variables)
ObjectKeys(env) == [i \in 1..Len(env) |-> env[i].k]

\* a variant that forgets every other entry
StoreVariableAlone(env, name, val) == <<[k |-> name, v |-> val]>>

\* a variant that keeps the value a name already has
StoreVariableKeepFirst(env, name, val) ==
    IF HasOwn(env, name) THEN env ELSE Append(env, [k |-> name, v |-> val])

\* this.variables[name] = val
StoreVariable(env, name, val) ==
    IF HasOwn(env, name)
    THEN [env EXCEPT ![KeyIndex(env, name)].v = val]
    ELSE Append(env, [k |-> name, v |-> val])

\* new Error(`Variable '${name}' not found. Available: ${keys.join(', ')}`)
VariableNotFound(name, env) ==
    [kind |-> "VariableNotFound", name |-> name, avail |-> ObjectKeys(env), text |-> ""]

-----------------------------------------------------------------------------
(* Log lines: the fixed text of the line and the values interpolated in it; *)
(* the time-of-day prefix that log() puts before the text is left out       *)

Line(text) ==
    [text |-> text, label |-> "", type |-> "", arg |-> "", name |-> <<>>, name2 |-> <<>>,
     msg |-> NoMessage, keys |-> <<>>, url |-> <<>>]

\* a variant that puts the new line first
logFirst(lg, message) == <<message>> \o lg

\* log(message), line 27: this.logs.push(...)
log(lg, message) == Append(lg, message)

\* this.logs after log() was called for each of the lines in turn
RECURSIVE LogAll(_, _)
LogAll(lg, lines) ==
    IF lines = <<>> THEN lg ELSE LogAll(log(lg, Head(lines)), Tail(lines))

\* The log sink after log() was called for each of the lines in turn: line 28
\* hands it a copy of this.logs.  calls counts the calls, arg is the argument
\* of the last one, and grew tells whether every call so far carried the
\* argument of the call before it and the one line just logged.
SinkAll(sink, lg, lines) ==
    LET at(i) == LogAll(lg, SubSeq(lines, 1, i))
        before(i) == IF i = 1 THEN sink.arg ELSE at(i - 1)
    IN  [calls |-> sink.calls + Len(lines),
         arg |-> IF lines = <<>> THEN sink.arg ELSE at(Len(lines)),
         grew |-> sink.grew /\ \A i \in 1..Len(lines) : at(i) = Append(before(i), lines[i])]

-----------------------------------------------------------------------------
(* Template resolution *)

\* A template is a sequence of tokens: literal text, or a {{ name }} placeholder
Lit(s) == [ph |-> FALSE, s |-> s, name |-> <<>>]
Ph(name) == [ph |-> TRUE, s |-> "", name |-> name]

\* typeof val === 'object' ? JSON.stringify(val) : String(val)
Substitute(val) ==
    IF TypeofObject(val) THEN [s |-> "", json |-> val] ELSE [s |-> val.s, json |-> Null]

\* position of the first placeholder whose name is not in the environment, or 0
RECURSIVE FirstUnresolved(_, _, _)
FirstUnresolved(text, env, i) ==
    IF i > Len(text) THEN 0
    ELSE IF text[i].ph /\ ~HasOwn(env, text[i].name) THEN i
    ELSE FirstUnresolved(text, env, i + 1)

\* a variant that leaves a placeholder it cannot resolve where it is
resolveVariablesLenient(text, env) ==
    [ok |-> TRUE, err |-> NoMessage,
     val |-> [i \in 1..Len(text) |->
                IF text[i].ph
                THEN IF HasOwn(env, text[i].name) THEN Substitute(Lookup(env, text[i].name))
                     ELSE [s |-> "{{}}", json |-> Null]
                ELSE [s |-> text[i].s, json |-> Null]]]

\* resolveVariables(text): the resolved string, or the error thrown
resolveVariables(text, env) ==
    LET bad == FirstUnresolved(text, env, 1) IN
    IF bad # 0
    THEN [ok |-> FALSE, err |-> VariableNotFound(text[bad].name, env), val |-> <<>>]
    ELSE [ok |-> TRUE, err |-> NoMessage,
          val |-> [i \in 1..Len(text) |->
                     IF text[i].ph THEN Substitute(Lookup(env, text[i].name))
                     ELSE [s |-> text[i].s, json |-> Null]]]

\* s.replace(/^\{\{\s*/, '')
StripOpen(s) ==
    IF Len(s) >= 2 /\ s[1] = "{" /\ s[2] = "{" THEN TrimStart(SubSeq(s, 3, Len(s))) ELSE s

\* s.replace(/\s*\}\}$/, '')
StripClose(s) ==
    IF Len(s) >= 2 /\ s[Len(s)] = "}" /\ s[Len(s) - 1] = "}"
    THEN TrimEnd(SubSeq(s, 1, Len(s) - 2)) ELSE s

\* varName.trim().replace(/^\{\{\s*|\s*\}\}$/g, '')
StripReference(varName) == StripClose(StripOpen(Trim(varName)))

\* resolveVariableValue(varName): the value, or the error thrown
resolveVariableValue(varName, env) ==
    LET stripped == StripReference(varName) IN
    IF HasOwn(env, stripped)
    THEN [ok |-> TRUE, err |-> NoMessage, val |-> Lookup(env, stripped)]
    ELSE [ok |-> FALSE, err |-> VariableNotFound(stripped, env), val |-> Null]

\* a variant that leaves out the references it cannot resolve
resolveInputsDropFailed(inputs, env) ==
    LET kept == SelectSeq(inputs, LAMBDA e : e.type # "variable"
                                     \/ resolveVariableValue(e.value, env).ok)
    IN  [i \in 1..Len(kept) |->
            IF kept[i].type = "variable"
            THEN [kept[i] EXCEPT !.value = <<>>,
                                 !.data = resolveVariableValue(kept[i].value, env).val]
            ELSE kept[i]]

\* A NodeInput {type, value}: value is a variable reference (in .value) or data
\* (in .data); a resolved reference carries the variable's value as data
\* resolveInputs(inputs): the resolved list
resolveInputs(inputs, env) ==
    [i \in 1..Len(inputs) |->
        IF inputs[i].type = "variable" /\ resolveVariableValue(inputs[i].value, env).ok
        THEN [inputs[i] EXCEPT !.value = <<>>,
                               !.data = resolveVariableValue(inputs[i].value, env).val]
        ELSE inputs[i]]

\* the warnings resolveInputs(inputs) logs, in order
RECURSIVE resolveInputsLog(_, _)
resolveInputsLog(inputs, env) ==
    IF inputs = <<>> THEN <<>>
    ELSE LET r == resolveVariableValue(Head(inputs).value, env) IN
         (IF Head(inputs).type = "variable" /\ ~r.ok
          THEN <<[Line("Warning: ${e.message}") EXCEPT !.msg = r.err]>>
          ELSE <<>>) \o resolveInputsLog(Tail(inputs), env)

\* resolveInputImage(nodeData): the image, or the error rethrown
resolveInputImage(data, env) ==
    IF data.inputImageVariable # <<>>
    THEN resolveVariableValue(data.inputImageVariable, env)
    ELSE [ok |-> TRUE, err |-> NoMessage, val |-> data.inputImage]

-----------------------------------------------------------------------------
(* Nodes and graphs *)

\* NodeData with nothing configured and the status fields of a fresh node
Data(label) ==
    [label |-> label, prompt |-> <<>>, apiUrl |-> <<>>, inputs |-> <<>>,
     inputImageVariable |-> <<>>, inputImage |-> Null,
     outputVariableName |-> <<>>, outputMappings |-> <<>>, condition |-> "",
     webhookContentType |-> "json",
     webhookPayload |-> [text |-> "", valid |-> FALSE, value |-> Null],
     webhookFormData |-> <<>>, jsonSchema |-> "",
     status |-> "idle", outputValue |-> Null, errorMessage |-> NoMessage]

Node(id, type, data) == [id |-> id, type |-> type, data |-> data]

NodeIds == {"n1", "n2", "n3"}

\* the status fields a node carries in from an earlier, finished run
StaleSuccess(d) == [d EXCEPT !.status = "success", !.outputValue = Str("old")]
StaleError(d) ==
    [d EXCEPT !.status = "error", !.errorMessage = ErrorMessage("old failure")]

\* '{"n": 5}', and what JSON.parse makes of it
PayloadN == [text |-> "{\"n\": 5}", valid |-> TRUE, value |-> Obj(<<"n">> :> Num("5"))]

\* trigger, generate-text and api nodes, each reading what the one before
\* stores, with the statuses an earlier run left
ChainNodes ==
    << Node("n1", "webhook",
            [StaleSuccess(Data("n1")) EXCEPT !.webhookPayload = PayloadN,
                               !.outputMappings = <<[field |-> <<"n">>, variable |-> <<"n">>]>>]),
       Node("n2", "ai-text",
            [StaleError(Data("n2")) EXCEPT !.prompt = <<Lit("double "), Ph(<<"n">>)>>,
                               !.outputVariableName = <<"r">>]),
       Node("n3", "api",
            [StaleSuccess(Data("n3")) EXCEPT !.apiUrl = <<Lit("http://host/"), Ph(<<"r">>)>>,
                               !.outputVariableName = <<"a">>]) >>

\* a trigger, an image node whose single input reference is never stored, and
\* a passthrough node
ImageNodes ==
    << Node("n1", "webhook",
            [Data("n1") EXCEPT !.outputVariableName = <<"t">>]),
       Node("n2", "ai-image",
            [Data("n2") EXCEPT !.prompt = <<Lit("edit")>>,
                               !.inputImageVariable = <<"{", "{", "i", "}", "}">>]),
       Node("n3", "variable", Data("n3")) >>

\* a trigger, a text node with a list of inputs, and a condition node
InputsNodes ==
    << Node("n1", "webhook",
            [Data("n1") EXCEPT !.webhookContentType = "form-data",
                               !.webhookFormData = <<[key |-> <<"k">>, value |-> "v"]>>,
                               !.outputVariableName = <<"t">>]),
       Node("n2", "ai-text",
            [Data("n2") EXCEPT !.prompt = <<Lit("describe")>>,
                               !.inputs = <<[type |-> "variable", value |-> <<"i">>, data |-> Null],
                                            [type |-> "variable", value |-> <<"t">>, data |-> Null]>>,
                               !.outputVariableName = <<"r">>]),
       Node("n3", "condition",
            [StaleSuccess(Data("n3")) EXCEPT !.condition = "x > 1"]) >>

\* no trigger at all, with the statuses an earlier run left
NoTriggerNodes ==
    << Node("n1", "variable", StaleSuccess(Data("n1"))),
       Node("n2", "api", StaleError([Data("n2") EXCEPT !.apiUrl = <<Lit("http://host/")>>])),
       Node("n3", "condition", Data("n3")) >>

\* two triggers, neither of them the first node
TwoTriggerNodes ==
    << Node("n1", "loop", Data("n1")),
       Node("n2", "webhook",
            [StaleSuccess(Data("n2")) EXCEPT !.outputVariableName = <<"t">>]),
       Node("n3", "webhook", Data("n3")) >>

\* a trigger that carries {"n": 5} and stores nothing, a generate-text node
\* that reads n and stores its result, and a passthrough node
EndToEndNodes ==
    << Node("n1", "webhook", [Data("n1") EXCEPT !.webhookPayload = PayloadN]),
       Node("n2", "ai-text",
            [Data("n2") EXCEPT !.prompt = <<Lit("double "), Ph(<<"n">>)>>,
                               !.outputVariableName = <<"r", "e", "s", "u", "l", "t">>]),
       Node("n3", "variable", Data("n3")) >>

\* the same, with the trigger mapping the field n of its payload to variable n
EndToEndMappedNodes ==
    << Node("n1", "webhook",
            [Data("n1") EXCEPT !.webhookPayload = PayloadN,
                               !.outputMappings = <<[field |-> <<"n">>, variable |-> <<"n">>]>>]),
       Node("n2", "ai-text",
            [Data("n2") EXCEPT !.prompt = <<Lit("double "), Ph(<<"n">>)>>,
                               !.outputVariableName = <<"r", "e", "s", "u", "l", "t">>]),
       Node("n3", "condition", [Data("n3") EXCEPT !.condition = "x > 1"]) >>

\* '{"x": 1, "y": 2}', and what JSON.parse makes of it
PayloadXY ==
    [text |-> "{\"x\": 1, \"y\": 2}", valid |-> TRUE,
     value |-> Obj(<<"x">> :> Num("1") @@ <<"y">> :> Num("2"))]

\* a trigger with an output variable and mappings (one of a missing field, two
\* onto the output variable itself), a text node whose prompt names a variable
\* that is stored and one that never is, and a text node with a response
\* schema, an output variable and a mapping
MappingNodes ==
    << Node("n1", "webhook",
            [Data("n1") EXCEPT !.webhookPayload = PayloadXY,
                               !.outputVariableName = <<"v">>,
                               !.outputMappings = <<[field |-> <<"x">>, variable |-> <<"n">>],
                                                    [field |-> <<"z">>, variable |-> <<"m">>],
                                                    [field |-> <<"y">>, variable |-> <<"v">>],
                                                    [field |-> <<"x">>, variable |-> <<"v">>]>>]),
       Node("n2", "ai-text",
            [Data("n2") EXCEPT !.prompt = <<Ph(<<"n">>), Lit(" and "), Ph(<<"q">>)>>]),
       Node("n3", "ai-text",
            [Data("n3") EXCEPT !.prompt = <<Lit("hello")>>,
                               !.jsonSchema = "{\"type\": \"OBJECT\"}",
                               !.outputVariableName = <<"n">>,
                               !.outputMappings = <<[field |-> <<"x">>, variable |-> <<"w">>]>>]) >>

\* '{bad', which JSON.parse rejects
PayloadBad == [text |-> "{bad", valid |-> FALSE, value |-> Null]

\* a trigger whose payload does not parse, with a blank output variable name, a
\* mapping of the raw text and a mapping onto a blank name; a text node with a
\* response schema, a list of inputs (a file, a reference that is never
\* stored, a reference to the raw text) and a single input reference that is
\* never stored; an image node with that single input reference only
RecoveryNodes ==
    << Node("n1", "webhook",
            [Data("n1") EXCEPT !.webhookPayload = PayloadBad,
                               !.outputVariableName = <<" ">>,
                               !.outputMappings = <<[field |-> <<"r", "a", "w">>, variable |-> <<"w">>],
                                                    [field |-> <<"e", "r", "r", "o", "r">>,
                                                     variable |-> <<" ", " ">>]>>]),
       Node("n2", "ai-text",
            [Data("n2") EXCEPT !.prompt = <<Lit("describe")>>,
                               !.jsonSchema = "{\"type\": \"OBJECT\"}",
                               !.inputImageVariable = <<"{", "{", "i", "}", "}">>,
                               !.inputs = <<[type |-> "file", value |-> <<>>,
                                             data |-> Str("data:image/png;base64,AAAA")],
                                            [type |-> "variable", value |-> <<"i">>, data |-> Null],
                                            [type |-> "variable", value |-> <<"w">>, data |-> Null]>>]),
       Node("n3", "ai-image",
            [StaleSuccess(Data("n3")) EXCEPT
                 !.prompt = <<Lit("edit")>>,
                 !.inputImageVariable = <<"{", "{", " ", "i", " ", "}", "}">>]) >>

\* a trigger without a payload, a text node whose response schema does not
\* parse, and an image node whose image is not a data URL
SchemaNodes ==
    << Node("n1", "webhook", Data("n1")),
       Node("n2", "ai-text",
            [StaleError(Data("n2")) EXCEPT !.prompt = <<Lit("describe")>>,
                                           !.jsonSchema = "{"]),
       Node("n3", "ai-image",
            [Data("n3") EXCEPT !.prompt = <<Lit("edit")>>,
                               !.inputImage = Str("{bad"),
                               !.outputVariableName = <<"g">>]) >>

\* a trigger, a text node with a response schema and an image node without
\* one, each storing its result
RejectingNodes ==
    << Node("n1", "webhook", [Data("n1") EXCEPT !.webhookPayload = PayloadN]),
       Node("n2", "ai-text",
            [Data("n2") EXCEPT !.prompt = <<Lit("describe")>>,
                               !.jsonSchema = "{\"type\": \"OBJECT\"}",
                               !.outputVariableName = <<"r">>]),
       Node("n3", "ai-image",
            [Data("n3") EXCEPT !.prompt = <<Lit("draw")>>,
                               !.outputVariableName = <<"g">>]) >>

NodeLists ==
    {ChainNodes, ImageNodes, InputsNodes, NoTriggerNodes, TwoTriggerNodes,
     EndToEndNodes, EndToEndMappedNodes, MappingNodes, RecoveryNodes, SchemaNodes,
     RejectingNodes}

\* the node lists that are also run without process.env.API_KEY
KeylessNodeLists == {SchemaNodes}

\* the node lists that are run against a service rejecting in every way drawn,
\* on the shorter edge lists; the others are run against one that rejects in a
\* single way
RejectingNodeLists == {RejectingNodes}

\* An edge links two different nodes (the canvas never connects a node to
\* itself); its target may name a node that is not in the list
PossibleEdges ==
    {e \in [source : NodeIds, target : NodeIds \cup {"gone"}] : e.source # e.target}

EdgeLists == UNION {[1..n -> PossibleEdges] : n \in 0..MaxEdges}

\* the edge lists a node list is run with
EdgeListsOf(ns) ==
    IF ns \in RejectingNodeLists
    THEN {es \in EdgeLists : Len(es) <= MaxRejectingEdges}
    ELSE EdgeLists

-----------------------------------------------------------------------------
(* The engine's helpers *)

\* this.nodes.find(n => n.id === id), as a position in the list (0: none)
RECURSIVE FindNode(_, _, _)
FindNode(ns, id, i) ==
    IF i > Len(ns) THEN 0
    ELSE IF ns[i].id = id THEN i
    ELSE FindNode(ns, id, i + 1)

\* a variant that falls back to the first node when there is no trigger
RECURSIVE FindStartOrFirst(_, _)
FindStartOrFirst(ns, i) ==
    IF i > Len(ns) THEN 1
    ELSE IF ns[i].type = "webhook" THEN i
    ELSE FindStartOrFirst(ns, i + 1)

\* a variant that finds the last trigger of the list
RECURSIVE FindStartNodeLast(_, _)
FindStartNodeLast(ns, i) ==
    IF i > Len(ns) THEN 0
    ELSE IF FindStartNodeLast(ns, i + 1) # 0 THEN FindStartNodeLast(ns, i + 1)
    ELSE IF ns[i].type = "webhook" THEN i
    ELSE 0

\* this.nodes.find(n => n.type === 'webhook'), as a position (0: none)
RECURSIVE FindStartNode(_, _)
FindStartNode(ns, i) ==
    IF i > Len(ns) THEN 0
    ELSE IF ns[i].type = "webhook" THEN i
    ELSE FindStartNode(ns, i + 1)

\* a variant that leaves outputValue as it was
ResetNodesKeepOutput(ns) ==
    [i \in 1..Len(ns) |->
        [ns[i] EXCEPT !.data.status = "idle", !.data.errorMessage = NoMessage]]

\* the reset of run(): every node idle, outputValue null, errorMessage undefined
ResetNodes(ns) ==
    [i \in 1..Len(ns) |->
        [ns[i] EXCEPT !.data.status = "idle", !.data.outputValue = Null,
                      !.data.errorMessage = NoMessage]]

\* a variant that does not compare ids
UpdateEveryNodeStatus(ns, id, status, output, error) ==
    [i \in 1..Len(ns) |->
        [ns[i] EXCEPT !.data.status = status,
                      !.data.outputValue = IF output # Undefined THEN output ELSE @,
                      !.data.errorMessage = error]]

\* a variant that does not attach the error
UpdateNodeStatusNoError(ns, id, status, output, error) ==
    [i \in 1..Len(ns) |->
        IF ns[i].id = id
        THEN [ns[i] EXCEPT !.data.status = status,
                           !.data.outputValue = IF output # Undefined THEN output ELSE @,
                           !.data.errorMessage = NoMessage]
        ELSE ns[i]]

\* a variant that keeps the earlier message when it is given none
UpdateNodeStatusKeepError(ns, id, status, output, error) ==
    [i \in 1..Len(ns) |->
        IF ns[i].id = id
        THEN [ns[i] EXCEPT !.data.status = status,
                           !.data.outputValue = IF output # Undefined THEN output ELSE @,
                           !.data.errorMessage = IF error # NoMessage THEN error ELSE @]
        ELSE ns[i]]

\* a variant that drops the earlier output when it is given none
UpdateNodeStatusClearOutput(ns, id, status, output, error) ==
    [i \in 1..Len(ns) |->
        IF ns[i].id = id
        THEN [ns[i] EXCEPT !.data.status = status,
                           !.data.outputValue = IF output # Undefined THEN output ELSE Null,
                           !.data.errorMessage = error]
        ELSE ns[i]]

\* a variant that keeps only the node it updates
UpdateNodeStatusAlone(ns, id, status, output, error) ==
    LET kept == SelectSeq(ns, LAMBDA n : n.id = id) IN
    [i \in 1..Len(kept) |->
        [kept[i] EXCEPT !.data.status = status,
                        !.data.outputValue = IF output # Undefined THEN output ELSE @,
                        !.data.errorMessage = error]]

\* updateNodeStatus(id, status, output?, error?): the new this.nodes
UpdateNodeStatus(ns, id, status, output, error) ==
    [i \in 1..Len(ns) |->
        IF ns[i].id = id
        THEN [ns[i] EXCEPT !.data.status = status,
                           !.data.outputValue = IF output # Undefined THEN output ELSE @,
                           !.data.errorMessage = error]
        ELSE ns[i]]

\* a variant that does not compare sources
OutgoingEdgesOfAll(es, id) == [i \in 1..Len(es) |-> i]

\* a variant that keeps one edge for each target
OutgoingEdgesDistinctTargets(es, id) ==
    SelectSeq([i \in 1..Len(es) |-> i],
              LAMBDA i : /\ es[i].source = id
                         /\ \A j \in 1..(i - 1) :
                               ~(es[j].source = id /\ es[j].target = es[i].target))

\* a variant that walks the edges backwards
OutgoingEdgesReversed(es, id) ==
    LET n == Len(es) IN
    SelectSeq([i \in 1..n |-> n + 1 - i], LAMBDA i : es[i].source = id)

\* this.edges.filter(e => e.source === node.id), as positions in this.edges
OutgoingEdges(es, id) ==
    SelectSeq([i \in 1..Len(es) |-> i], LAMBDA i : es[i].source = id)

\* a variant that passes over a target that is not idle any more
RECURSIVE NextEdgeSkipVisited(_, _, _, _)
NextEdgeSkipVisited(es, ns, out, k) ==
    IF k >= Len(out) THEN 0
    ELSE IF /\ FindNode(ns, es[out[k + 1]].target, 1) # 0
            /\ ns[FindNode(ns, es[out[k + 1]].target, 1)].data.status = "idle"
         THEN k + 1
    ELSE NextEdgeSkipVisited(es, ns, out, k + 1)

\* the for loop over outgoingEdges: the first position after k of an edge whose
\* target is a node of the list (0: the loop is over)
RECURSIVE NextEdge(_, _, _, _)
NextEdge(es, ns, out, k) ==
    IF k >= Len(out) THEN 0
    ELSE IF FindNode(ns, es[out[k + 1]].target, 1) # 0 THEN k + 1
    ELSE NextEdge(es, ns, out, k + 1)

-----------------------------------------------------------------------------
(* executeNode, piece by piece *)

\* step 1 of executeNode (lines 166-186): the processed node data, the
\* warnings logged on the way, or the error thrown
ResolveNodeData(d, env) ==
    LET p == IF d.prompt # <<>> THEN resolveVariables(d.prompt, env)
             ELSE [ok |-> TRUE, err |-> NoMessage, val |-> <<>>]
        u == IF d.apiUrl # <<>> THEN resolveVariables(d.apiUrl, env)
             ELSE [ok |-> TRUE, err |-> NoMessage, val |-> <<>>]
        multi == Len(d.inputs) > 0
        img == IF multi THEN [ok |-> TRUE, err |-> NoMessage, val |-> d.inputImage]
               ELSE resolveInputImage(d, env)
        none == [ok |-> FALSE, err |-> NoMessage, prompt |-> <<>>, apiUrl |-> <<>>,
                 inputs |-> <<>>, inputImage |-> Null, logs |-> <<>>]
    IN  IF ~p.ok THEN [none EXCEPT !.err = p.err]
        ELSE IF ~u.ok THEN [none EXCEPT !.err = u.err]
        ELSE IF ~img.ok THEN [none EXCEPT !.err = img.err]
        ELSE [ok |-> TRUE, err |-> NoMessage, prompt |-> p.val, apiUrl |-> u.val,
              inputs |-> IF multi THEN resolveInputs(d.inputs, env) ELSE d.inputs,
              inputImage |-> img.val,
              logs |-> IF multi THEN resolveInputsLog(d.inputs, env) ELSE <<>>]

\* the object the form-data trigger builds: later fields overwrite earlier ones
FormDataObject(fields) ==
    LET keys == {fields[i].key : i \in {j \in 1..Len(fields) : fields[j].key # <<>>}}
        last(k) == CHOOSE i \in 1..Len(fields) :
                      /\ fields[i].key = k
                      /\ \A j \in 1..Len(fields) : fields[j].key = k => j <= i
    IN  Obj([k \in keys |-> Str(fields[last(k)].value)])

\* a variant that never reads the configured payload
WebhookOutputDefault(d) ==
    [out |-> Obj(<<"t", "r", "i", "g", "g", "e", "r">> :> Str("manual")
                 @@ <<"t", "i", "m", "e", "s", "t", "a", "m", "p">> :> Num("Date.now()")),
     logs |-> <<>>]

\* case 'webhook' (lines 189-214): the output and the line logged
WebhookOutput(d) ==
    IF d.webhookContentType = "form-data"
    THEN [out |-> FormDataObject(d.webhookFormData),
          logs |-> <<Line("Loaded simulation Form-Data payload.")>>]
    ELSE IF d.webhookPayload.text # ""
    THEN IF d.webhookPayload.valid
         THEN [out |-> d.webhookPayload.value,
               logs |-> <<Line("Loaded simulation JSON payload.")>>]
         ELSE [out |-> Obj(<<"e", "r", "r", "o", "r">> :> Str("Invalid JSON Payload")
                           @@ <<"r", "a", "w">> :> Str(d.webhookPayload.text)),
               logs |-> <<Line("Error parsing Webhook payload, using default.")>>]
    ELSE [out |-> Obj(<<"t", "r", "i", "g", "g", "e", "r">> :> Str("manual")
                      @@ <<"t", "i", "m", "e", "s", "t", "a", "m", "p">> :> Num("Date.now()")),
          logs |-> <<>>]

\* a variant in which every node hands on what it received
DispatchInbound(node, inputData) == [out |-> inputData, logs |-> <<>>]

\* the cases of the switch that do not suspend (lines 188-249)
Dispatch(node, inputData) ==
    CASE node.type = "webhook" -> WebhookOutput(node.data)
      [] node.type = "variable" -> [out |-> inputData, logs |-> <<>>]
      [] node.type = "condition" ->
            [out |-> inputData,
             logs |-> <<[Line("Checking condition: ${condition}")
                           EXCEPT !.arg = node.data.condition]>>]
      [] OTHER -> [out |-> inputData, logs |-> <<>>]

\* the result of the simulated API call (line 238)
ApiResult ==
    Obj(<<"s", "t", "a", "t", "u", "s">> :> Num("200")
        @@ <<"d", "a", "t", "a">> :> Obj(<<"m", "o", "c", "k">> :> Str("result")))

\* what executeAiNode may return
AiResults == {Str("10")}

\* with a response schema the text is parsed: JSON.parse may give an object or
\* null, and text that does not parse is returned as it is
AiJsonResults ==
    {Obj(<<"x">> :> Num("1")), Null, Str("10")}

AiResultsOf(node) ==
    IF node.type = "ai-text" /\ node.data.jsonSchema # "" THEN AiJsonResults ELSE AiResults

\* the strings that start with 'data:', among those the model uses
DataUrls == {"data:image/png;base64,AAAA"}

\* the schema texts JSON.parse and normalizeSchema accept, among those the model uses
ValidSchemas == {"{\"type\": \"OBJECT\"}"}

\* config.responseSchema is set (part_001, lines 139-151)
SchemaSent(d) == d.jsonSchema # "" /\ d.jsonSchema \in ValidSchemas

\* What executeAiNode throws before its try block (part_001, lines 86, 107-121
\* and 139-151), for the processed inputs and image in r; NoMessage: nothing
PreRequestFailure(d, r, key) ==
    IF ~key THEN ErrorMessage("API_KEY is missing from environment variables")
    ELSE IF /\ r.inputs = <<>>
            /\ r.inputImage.t \notin {"null", "undefined"} /\ r.inputImage # Str("")
            /\ ~(r.inputImage.t = "string" /\ r.inputImage.s \in DataUrls)
    THEN ErrorMessage("Input image variable must contain a valid Data URL (e.g. data:image/png;base64,...).")
    ELSE IF d.jsonSchema # "" /\ d.jsonSchema \notin ValidSchemas
    THEN ErrorMessage("Invalid JSON Schema provided. Please check JSON syntax.")
    ELSE NoMessage

\* The errors generateContent may reject with: name and message
UpstreamError(name, message) == [name |-> name, message |-> message]

Quota == <<"q", "u", "o", "t", "a">>
TokenText == <<"t", "o", "k", "e", "n">>
ExceedsText == <<"e", "x", "c", "e", "e", "d", "s">>
InvalidArgument == <<"I", "N", "V", "A", "L", "I", "D", "_", "A", "R", "G", "U", "M", "E", "N", "T">>
ErrorName == <<"E", "r", "r", "o", "r">>

UpstreamErrors ==
    {UpstreamError(ErrorName, Quota),
     UpstreamError(ErrorName, <<"1">> \o TokenText \o <<"s">>),
     UpstreamError(ErrorName, <<"n">> \o ExceedsText),
     UpstreamError(ErrorName, InvalidArgument \o <<":">>),
     UpstreamError(ErrorName, InvalidArgument \o <<" ">> \o TokenText),
     UpstreamError(ErrorName, <<>>),
     UpstreamError(<<>>, <<>>)}

\* the errors a request may be rejected with when the node list is ns
UpstreamErrorsOf(ns) ==
    IF ns \in RejectingNodeLists THEN UpstreamErrors ELSE {UpstreamError(ErrorName, Quota)}

\* Error.prototype.toString
ErrorToString(error) ==
    IF error.name = <<>> THEN error.message
    ELSE IF error.message = <<>> THEN error.name
    ELSE error.name \o <<":", " ">> \o error.message

\* new Error(text), for a text made of characters
Raised(chars) == [kind |-> "Raised", name |-> chars, avail |-> <<>>, text |-> ""]
TokenLimitExceeded ==
    ErrorMessage("Token Limit Exceeded: The input context passed to the model is too large. Check if you are passing large images or files as text context from previous steps.")
SchemaRejected(details) ==
    [kind |-> "SchemaRejected", name |-> details, avail |-> <<>>,
     text |-> "API rejected the request. Please verify your JSON Schema matches the Gemini API requirements (e.g. use 'type': 'OBJECT' and no nulls). Details: ${errorMessage}"]

\* a variant that looks for the rejected schema first
executeAiNodeCatchSchemaFirst(error, schemaSent) ==
    LET errorMessage == IF error.message # <<>> THEN error.message ELSE ErrorToString(error)
    IN  IF Includes(errorMessage, InvalidArgument) /\ schemaSent
        THEN SchemaRejected(errorMessage)
        ELSE IF Includes(errorMessage, TokenText) \/ Includes(errorMessage, ExceedsText)
        THEN TokenLimitExceeded
        ELSE IF errorMessage # <<>> THEN Raised(errorMessage)
        ELSE ErrorMessage("Failed to execute AI request")

\* the catch block of executeAiNode (part_001, lines 198-214): what it throws
executeAiNodeCatch(error, schemaSent) ==
    LET errorMessage == IF error.message # <<>> THEN error.message ELSE ErrorToString(error)
    IN  IF Includes(errorMessage, TokenText) \/ Includes(errorMessage, ExceedsText)
        THEN TokenLimitExceeded
        ELSE IF Includes(errorMessage, InvalidArgument) /\ schemaSent
        THEN SchemaRejected(errorMessage)
        ELSE IF errorMessage # <<>> THEN Raised(errorMessage)
        ELSE ErrorMessage("Failed to execute AI request")

\* every error executeAiNode may throw into executeNode
AiErrors ==
    ({PreRequestFailure(d, r, key) :
         d \in [jsonSchema : {"", "{"}],
         r \in [inputs : {<<>>}, inputImage : {Null, Str("{bad")}],
         key \in BOOLEAN} \ {NoMessage})
    \cup {executeAiNodeCatch(e, b) : e \in UpstreamErrors, b \in BOOLEAN}

\* 2a (lines 253-259): the primary output variable
StorePrimary(d, out, env) ==
    IF d.outputVariableName # <<>> /\ Trim(d.outputVariableName) # <<>>
    THEN [env |-> StoreVariable(env, Trim(d.outputVariableName), out),
          logs |-> <<[Line("Stored output to variable '${varName}'")
                        EXCEPT !.name = Trim(d.outputVariableName)]>>,
          writes |-> <<[k |-> Trim(d.outputVariableName), v |-> out]>>]
    ELSE [env |-> env, logs |-> <<>>, writes |-> <<>>]

\* a variant that gives up at the first mapping whose field is missing
RECURSIVE StoreMappingsUntilMissing(_, _, _)
StoreMappingsUntilMissing(ms, out, env) ==
    IF ms = <<>> THEN [env |-> env, logs |-> <<>>, writes |-> <<>>]
    ELSE LET m == Head(ms)
             fieldName == Trim(m.field)
             varName == Trim(m.variable)
             rest == StoreMappingsUntilMissing(Tail(ms), out, env)
             stored == StoreMappingsUntilMissing(Tail(ms), out,
                                                 StoreVariable(env, varName, out.f[fieldName]))
         IN  IF m.field # <<>> /\ m.variable # <<>>
             THEN IF fieldName \in DOMAIN out.f
                  THEN [env |-> stored.env,
                        logs |-> <<[Line("Stored field '${fieldName}' to variable '${varName}'")
                                      EXCEPT !.name = fieldName, !.name2 = varName]>>
                                 \o stored.logs,
                        writes |-> <<[k |-> varName, v |-> out.f[fieldName]]>> \o stored.writes]
                  ELSE [env |-> env,
                        logs |-> <<[Line("Warning: Field '${fieldName}' not found in output.")
                                      EXCEPT !.name = fieldName]>>,
                        writes |-> <<>>]
             ELSE rest

\* 2b (lines 264-276): the mappings, in declared order
RECURSIVE StoreMappings(_, _, _)
StoreMappings(ms, out, env) ==
    IF ms = <<>> THEN [env |-> env, logs |-> <<>>, writes |-> <<>>]
    ELSE LET m == Head(ms)
             fieldName == Trim(m.field)
             varName == Trim(m.variable)
             here == IF m.field # <<>> /\ m.variable # <<>>
                     THEN IF fieldName \in DOMAIN out.f
                          THEN [env |-> StoreVariable(env, varName, out.f[fieldName]),
                                logs |-> <<[Line("Stored field '${fieldName}' to variable '${varName}'")
                                              EXCEPT !.name = fieldName, !.name2 = varName]>>,
                                writes |-> <<[k |-> varName, v |-> out.f[fieldName]]>>]
                          ELSE [env |-> env,
                                logs |-> <<[Line("Warning: Field '${fieldName}' not found in output.")
                                              EXCEPT !.name = fieldName]>>,
                                writes |-> <<>>]
                     ELSE [env |-> env, logs |-> <<>>, writes |-> <<>>]
             rest == StoreMappings(Tail(ms), out, here.env)
         IN  [env |-> rest.env, logs |-> here.logs \o rest.logs,
              writes |-> here.writes \o rest.writes]

\* a variant that takes null for an object
StoreOutputNullAsObject(d, out, env) ==
    LET a == StorePrimary(d, out, env)
        b == IF Len(d.outputMappings) > 0
             THEN IF TypeofObject(out)
                  THEN StoreMappings(d.outputMappings, out, a.env)
                  ELSE [env |-> a.env,
                        logs |-> <<Line("Warning: Output Mappings ignored because output is not an object.")>>,
                        writes |-> <<>>]
             ELSE [env |-> a.env, logs |-> <<>>, writes |-> <<>>]
    IN  [env |-> b.env, logs |-> a.logs \o b.logs, writes |-> a.writes \o b.writes]

\* step 2 of executeNode (lines 251-280): the environment, the lines logged and
\* the assignments made, in order
StoreOutput(d, out, env) ==
    LET a == StorePrimary(d, out, env)
        b == IF Len(d.outputMappings) > 0
             THEN IF out.t = "object"
                  THEN StoreMappings(d.outputMappings, out, a.env)
                  ELSE [env |-> a.env,
                        logs |-> <<Line("Warning: Output Mappings ignored because output is not an object.")>>,
                        writes |-> <<>>]
             ELSE [env |-> a.env, logs |-> <<>>, writes |-> <<>>]
    IN  [env |-> b.env, logs |-> a.logs \o b.logs, writes |-> a.writes \o b.writes]

-----------------------------------------------------------------------------
(* The call stack *)

\* One activation of executeNode(node, inputData).  pc: "begin" (called),
\* "body" (inside the try block), "awaitAi" / "awaitApi" (suspended),
\* "descend" (in the loop over the outgoing edges), "thrown" (an exception
\* is in flight, raised at site).  x numbers the executions of a run; by and
\* edge are the execution and the edge that called this one (0: run()).
\* cause holds the error executeAiNode caught, if the exception comes from its
\* catch block.
Frame(id, inputData, x, by, edge) ==
    [node |-> id, inputData |-> inputData, pc |-> "begin", outputData |-> inputData,
     err |-> NoMessage, site |-> "", x |-> x, by |-> by, edge |-> edge, k |-> 0,
     cause |-> <<>>]

Top == stack[Len(stack)]
Pop(stk) == SubSeq(stk, 1, Len(stk) - 1)
SetTop(stk, f) == [stk EXCEPT ![Len(stk)] = f]

\* env: this.variables when the transition is made (for a success, before the
\* extraction that precedes it)
Event(e, f) ==
    [e |-> e, x |-> f.x, node |-> f.node, by |-> f.by, edge |-> f.edge, site |-> f.site,
     input |-> f.inputData, out |-> f.outputData, env |-> variables]

Started == Len(SelectSeq(events, LAMBDA ev : ev.e = "running"))

\* a variant whose try block starts at the switch, after the resolution step
InTryFromSwitch(site) == site \in {"dispatch", "call"}

\* the try block of executeNode spans lines 166-294: resolution, dispatch,
\* extraction and the loop that awaits the targets
InTry(site) == site \in {"resolve", "dispatch", "call"}

\* a variant whose catch block ends by throwing the error again
AfterCatchRethrow(stk, err) ==
    IF Len(stk) = 1 THEN <<>>
    ELSE SetTop(Pop(stk), [stk[Len(stk) - 1] EXCEPT !.pc = "thrown", !.err = err,
                                                     !.site = "call"])

\* the catch block falls off its end: executeNode returns to its caller
AfterCatch(stk, err) == Pop(stk)

\* a variant that hands the target what the node itself received
TargetPayloadInbound(f) == f.inputData

\* executeNode(nextNode, outputData), line 291: what the target receives
TargetPayload(f) == f.outputData

\* a variant that reports success only once the targets have run
StatusBeforeTargetsLate == "running"

\* the status set at line 282, before the targets are executed
StatusBeforeTargets == "success"

-----------------------------------------------------------------------------
(* Actions *)

\* log() is called for each of the lines in turn (ls: the lines, computed once)
Logged(lines) ==
    \E ls \in {lines} :
       /\ logs' = LogAll(logs, ls)
       /\ logSink' = SinkAll(logSink, logs, ls)

\* this.setNodes([...this.nodes]) with the node list ns
SetNodes(ns) ==
    /\ setNodesCalls' = setNodesCalls + 1
    /\ setNodesArg' = ns

Init ==
    /\ nodes \in NodeLists
    /\ nodes0 = nodes
    /\ edges \in EdgeListsOf(nodes)
    /\ logs = <<>>
    /\ variables = <<>>
    /\ stack = <<>>
    /\ runPc = "init"
    /\ events = <<>>
    /\ setNodesCalls = 0
    /\ resets = 0
    /\ setNodesArg = <<>>
    /\ logSink = [calls |-> 0, arg |-> <<>>, grew |-> TRUE]
    /\ aiCalls = <<>>
    /\ writes = <<>>
    /\ apiKey \in IF nodes \in KeylessNodeLists THEN BOOLEAN ELSE {TRUE}

\* run(), lines 139-146: there is no trigger
RunNoTrigger ==
    /\ runPc = "init"
    /\ FindStartNode(nodes, 1) = 0
    /\ Logged(<<Line("Starting workflow execution..."),
                Line("Error: No Webhook/Start trigger found.")>>)
    /\ runPc' = "done"
    /\ UNCHANGED <<nodes, edges, apiKey, variables, stack, nodes0, events, setNodesCalls, resets,
                   setNodesArg, aiCalls, writes>>

\* run(), lines 139-154: reset, then call executeNode on the trigger
RunStart ==
    /\ runPc = "init"
    /\ FindStartNode(nodes, 1) # 0
    /\ Logged(<<Line("Starting workflow execution...")>>)
    /\ variables' = <<>>
    /\ writes' = <<>>
    /\ resets' = resets + 1
    /\ nodes' = ResetNodes(nodes)
    /\ SetNodes(nodes')
    /\ stack' = <<Frame(nodes[FindStartNode(nodes, 1)].id, Str("Workflow triggered."),
                        1, 0, 0)>>
    /\ runPc' = "executing"
    /\ UNCHANGED <<edges, apiKey, nodes0, events, aiCalls>>

\* executeNode, lines 161-162
Begin ==
    /\ runPc = "executing" /\ stack # <<>> /\ Top.pc = "begin"
    /\ LET n == nodes[FindNode(nodes, Top.node, 1)] IN
       /\ nodes' = UpdateNodeStatus(nodes, Top.node, "running", Undefined, NoMessage)
       /\ SetNodes(nodes')
       /\ Logged(<<[Line("Executing node: ${label} (${type})")
                      EXCEPT !.label = n.data.label, !.type = n.type]>>)
       /\ events' = Append(events, Event("running", Top))
       /\ stack' = SetTop(stack, [Top EXCEPT !.pc = "body"])
    /\ UNCHANGED <<edges, apiKey, variables, runPc, nodes0, resets, aiCalls, writes>>

\* lines 251-283 for the execution on top of the stack, whose handler
\* returned out
Succeed(out) ==
    LET n == nodes[FindNode(nodes, Top.node, 1)]
        st == StoreOutput(n.data, out, variables)
    IN  /\ variables' = st.env
        /\ writes' = writes \o st.writes
        /\ nodes' = UpdateNodeStatus(nodes, Top.node, StatusBeforeTargets, out, NoMessage)
        /\ SetNodes(nodes')
        /\ events' = Append(events, Event("success", [Top EXCEPT !.outputData = out]))
        /\ stack' = SetTop(stack, [Top EXCEPT !.pc = "descend", !.outputData = out])

\* the lines Succeed(out) logs
SucceedLog(out) ==
    LET n == nodes[FindNode(nodes, Top.node, 1)] IN
    StoreOutput(n.data, out, variables).logs
        \o <<[Line("Node ${label} completed.") EXCEPT !.label = n.data.label]>>

\* an exception raised at site in the execution on top of the stack
Throw(err, site) ==
    stack' = SetTop(stack, [Top EXCEPT !.pc = "thrown", !.err = err, !.site = site])

\* lines 166-186 fail: a placeholder or the single input reference is unresolved
ResolveFails ==
    /\ runPc = "executing" /\ stack # <<>> /\ Top.pc = "body"
    /\ LET n == nodes[FindNode(nodes, Top.node, 1)]
           r == ResolveNodeData(n.data, variables)
       IN  /\ ~r.ok
           /\ Throw(r.err, "resolve")
    /\ UNCHANGED <<nodes, edges, apiKey, logs, variables, runPc, nodes0, events, setNodesCalls, resets,
                   setNodesArg, logSink, aiCalls, writes>>

\* lines 166-283 of a node whose handler does not suspend
RunHandler ==
    /\ runPc = "executing" /\ stack # <<>> /\ Top.pc = "body"
    /\ LET n == nodes[FindNode(nodes, Top.node, 1)]
           r == ResolveNodeData(n.data, variables)
           h == Dispatch(n, Top.inputData)
       IN  /\ r.ok
           /\ n.type \notin {"ai-text", "ai-image", "api"}
           /\ Succeed(h.out)
           /\ Logged(r.logs \o h.logs \o SucceedLog(h.out))
    /\ UNCHANGED <<edges, apiKey, runPc, nodes0, resets, aiCalls>>

\* a variant that stores a placeholder under the output variable before the
\* call is answered
CallAiStoring ==
    /\ runPc = "executing" /\ stack # <<>> /\ Top.pc = "body"
    /\ LET n == nodes[FindNode(nodes, Top.node, 1)]
           r == ResolveNodeData(n.data, variables)
       IN  /\ r.ok
           /\ n.type \in {"ai-text", "ai-image"}
           /\ Logged(r.logs \o
                     (IF n.type = "ai-image"
                      THEN <<Line("Requesting image generation/editing...")>> ELSE <<>>))
           /\ aiCalls' = Append(aiCalls, [x |-> Top.x, node |-> Top.node, prompt |-> r.prompt,
                                          inputs |-> r.inputs, inputImage |-> r.inputImage])
           /\ variables' = StorePrimary(n.data, Str("pending"), variables).env
           /\ stack' = SetTop(stack, [Top EXCEPT !.pc = "awaitAi"])
    /\ UNCHANGED <<nodes, edges, apiKey, runPc, nodes0, events, setNodesCalls, resets,
                   setNodesArg, writes>>

\* lines 166-227 of a generate-text or generate-image node, up to the await
CallAi ==
    /\ runPc = "executing" /\ stack # <<>> /\ Top.pc = "body"
    /\ LET n == nodes[FindNode(nodes, Top.node, 1)]
           r == ResolveNodeData(n.data, variables)
       IN  /\ r.ok
           /\ n.type \in {"ai-text", "ai-image"}
           /\ Logged(r.logs \o
                     (IF n.type = "ai-image"
                      THEN <<Line("Requesting image generation/editing...")>> ELSE <<>>))
           /\ aiCalls' = Append(aiCalls, [x |-> Top.x, node |-> Top.node, prompt |-> r.prompt,
                                          inputs |-> r.inputs, inputImage |-> r.inputImage])
           /\ stack' = SetTop(stack, [Top EXCEPT !.pc = "awaitAi"])
    /\ UNCHANGED <<nodes, edges, apiKey, variables, runPc, nodes0, events, setNodesCalls, resets,
                   setNodesArg, writes>>

\* lines 166-237 of an api node, up to the await of the simulated delay
CallApi ==
    /\ runPc = "executing" /\ stack # <<>> /\ Top.pc = "body"
    /\ LET n == nodes[FindNode(nodes, Top.node, 1)]
           r == ResolveNodeData(n.data, variables)
       IN  /\ r.ok
           /\ n.type = "api"
           /\ Logged(r.logs \o
                     <<[Line("Calling API: ${apiUrl}") EXCEPT !.url = r.apiUrl]>>)
           /\ stack' = SetTop(stack, [Top EXCEPT !.pc = "awaitApi"])
    /\ UNCHANGED <<nodes, edges, apiKey, variables, runPc, nodes0, events, setNodesCalls, resets,
                   setNodesArg, aiCalls, writes>>

\* executeAiNode returns
AiReturns ==
    /\ runPc = "executing" /\ stack # <<>> /\ Top.pc = "awaitAi"
    /\ LET n == nodes[FindNode(nodes, Top.node, 1)] IN
       PreRequestFailure(n.data, ResolveNodeData(n.data, variables), apiKey) = NoMessage
    /\ \E out \in AiResultsOf(nodes[FindNode(nodes, Top.node, 1)]) :
          /\ Succeed(out)
          /\ Logged(SucceedLog(out))
    /\ UNCHANGED <<edges, apiKey, runPc, nodes0, resets, aiCalls>>

\* executeAiNode fails: before the request, or with the error of the request
\* as its catch block throws it again
AiFails ==
    /\ runPc = "executing" /\ stack # <<>> /\ Top.pc = "awaitAi"
    /\ LET n == nodes[FindNode(nodes, Top.node, 1)]
           pre == PreRequestFailure(n.data, ResolveNodeData(n.data, variables), apiKey)
       IN  IF pre # NoMessage
           THEN Throw(pre, "dispatch")
           ELSE \E error \in UpstreamErrorsOf(nodes0) :
                   stack' = SetTop(stack, [Top EXCEPT
                               !.pc = "thrown", !.site = "dispatch", !.cause = <<error>>,
                               !.err = executeAiNodeCatch(error, SchemaSent(n.data))])
    /\ UNCHANGED <<nodes, edges, apiKey, logs, variables, runPc, nodes0, events, setNodesCalls, resets,
                   setNodesArg, logSink, aiCalls, writes>>

\* the simulated delay is over (line 238)
ApiReturns ==
    /\ runPc = "executing" /\ stack # <<>> /\ Top.pc = "awaitApi"
    /\ Succeed(ApiResult)
    /\ Logged(SucceedLog(ApiResult))
    /\ UNCHANGED <<edges, apiKey, runPc, nodes0, resets, aiCalls>>

\* lines 288-292: the loop reaches an edge whose target exists and calls it
CallTarget ==
    /\ runPc = "executing" /\ stack # <<>> /\ Top.pc = "descend"
    /\ Len(stack) < MaxDepth
    /\ LET out == OutgoingEdges(edges, Top.node)
           k == NextEdge(edges, nodes, out, Top.k)
       IN  /\ k # 0
           /\ stack' = Append(SetTop(stack, [Top EXCEPT !.k = k]),
                              Frame(edges[out[k]].target, TargetPayload(Top),
                                    Started + 1, Top.x, out[k]))
    /\ UNCHANGED <<nodes, edges, apiKey, logs, variables, runPc, nodes0, events, setNodesCalls, resets,
                   setNodesArg, logSink, aiCalls, writes>>

\* a variant that gives the environment back as the execution found it
ReturnScoped ==
    /\ runPc = "executing" /\ stack # <<>> /\ Top.pc = "descend"
    /\ NextEdge(edges, nodes, OutgoingEdges(edges, Top.node), Top.k) = 0
    /\ stack' = Pop(stack)
    /\ variables' = events[CHOOSE q \in 1..Len(events) :
                              events[q].e = "running" /\ events[q].x = Top.x].env
    /\ UNCHANGED <<nodes, edges, apiKey, logs, runPc, nodes0, events, setNodesCalls, resets,
                   setNodesArg, logSink, aiCalls, writes>>

\* lines 288-294: the loop is over and executeNode returns
Return ==
    /\ runPc = "executing" /\ stack # <<>> /\ Top.pc = "descend"
    /\ NextEdge(edges, nodes, OutgoingEdges(edges, Top.node), Top.k) = 0
    /\ stack' = Pop(stack)
    /\ UNCHANGED <<nodes, edges, apiKey, logs, variables, runPc, nodes0, events, setNodesCalls, resets,
                   setNodesArg, logSink, aiCalls, writes>>

\* an exception in flight: the catch block (lines 295-299) when the site is
\* inside the try block, otherwise the rejection reaches the caller's await
Catch ==
    /\ runPc = "executing" /\ stack # <<>> /\ Top.pc = "thrown"
    /\ IF InTry(Top.site)
       THEN LET n == nodes[FindNode(nodes, Top.node, 1)] IN
            /\ nodes' = UpdateNodeStatus(nodes, Top.node, "error", Undefined, Top.err)
            /\ SetNodes(nodes')
            /\ Logged(<<[Line("Error in node ${label}: ${err.message}")
                           EXCEPT !.label = n.data.label, !.msg = Top.err]>>)
            /\ events' = Append(events, Event("error", Top))
            /\ stack' = AfterCatch(stack, Top.err)
            /\ runPc' = runPc
       ELSE /\ stack' = AfterCatchRethrow(stack, Top.err)
            /\ runPc' = IF Len(stack) = 1 THEN "threw" ELSE runPc
            /\ UNCHANGED <<nodes, logs, events, setNodesCalls, setNodesArg, logSink>>
    /\ UNCHANGED <<edges, apiKey, variables, nodes0, resets, aiCalls, writes>>

\* run(), lines 156-157
RunFinish ==
    /\ runPc = "executing" /\ stack = <<>>
    /\ Logged(<<Line("Workflow execution finished."),
                [Line("Final Global Variables: ${keys}")
                   EXCEPT !.keys = ObjectKeys(variables)]>>)
    /\ runPc' = "done"
    /\ UNCHANGED <<nodes, edges, apiKey, variables, stack, nodes0, events, setNodesCalls, resets,
                   setNodesArg, aiCalls, writes>>

Next ==
    \/ RunNoTrigger
    \/ RunStart
    \/ Begin
    \/ ResolveFails
    \/ RunHandler
    \/ CallAi
    \/ CallApi
    \/ AiReturns
    \/ AiFails
    \/ ApiReturns
    \/ CallTarget
    \/ Return
    \/ Catch
    \/ RunFinish

Spec == Init /\ [][Next]_vars

-----------------------------------------------------------------------------
(* Vocabulary of the properties *)

HasTrigger == \E i \in 1..Len(nodes0) : nodes0[i].type = "webhook"
Done == runPc = "done"
Pos == 1..Len(events)
NodeAt(id) == nodes[FindNode(nodes, id, 1)]
Running == {i \in 1..Len(nodes) : nodes[i].data.status = "running"}
Throwing == stack # <<>> /\ Top.pc = "thrown"
IsReset(n) ==
    n.data.status = "idle" /\ n.data.outputValue = Null /\ n.data.errorMessage = NoMessage

\* execution x has reached success or error among the first q events
Settled(x, q) ==
    \E i \in 1..q : events[i].x = x /\ events[i].e \in {"success", "error"}

-----------------------------------------------------------------------------
(* C1  Sibling isolation.  In a finished run, whenever an execution A called *)
(* through edge i of a node P ended in error, every later edge j of P whose  *)
(* target exists has been followed after A's failure, and the execution B    *)
(* it started reached success unless B itself failed in resolution or        *)
(* dispatch.                                                                 *)
SiblingIsolation ==
    Done =>
      \A i \in Pos :
        (events[i].e = "error" /\ events[i].by # 0) =>
          \A j \in (events[i].edge + 1)..Len(edges) :
            (/\ edges[j].source = edges[events[i].edge].source
             /\ FindNode(nodes, edges[j].target, 1) # 0) =>
               \E m \in Pos :
                 /\ m > i
                 /\ events[m].e = "running"
                 /\ events[m].by = events[i].by
                 /\ events[m].edge = j
                 /\ events[m].node = edges[j].target
                 /\ \E q \in Pos :
                      /\ q > m
                      /\ events[q].x = events[m].x
                      /\ \/ events[q].e = "success"
                         \/ events[q].e = "error" /\ events[q].site \in {"resolve", "dispatch"}

\* a finished run in which A failed in dispatch and its later sibling B succeeded
SiblingIsolationWitness ==
    /\ Done
    /\ \E i, q \in Pos :
         /\ i < q
         /\ events[i].e = "error" /\ events[i].site = "dispatch" /\ events[i].by # 0
         /\ events[q].e = "success" /\ events[q].by = events[i].by
         /\ events[q].edge > events[i].edge
         /\ NodeAt(events[i].node).data.status = "error"
         /\ NodeAt(events[q].node).data.status = "success"

-----------------------------------------------------------------------------
(* C2  Failure isolation.  The step that handles a failure of node N leaves  *)
(* every other node as it was, sets N to error, leaves the environment       *)
(* alone and calls no node; and no execution that ended in error ever has a  *)
(* target executed on its behalf.                                            *)
NoTargetOfFailed ==
    \A i, j \in Pos : events[i].e = "error" => events[j].by # events[i].x

FailureIsolation ==
    [][/\ Throwing =>
            /\ \A i \in 1..Len(nodes) : nodes[i].id # Top.node => nodes'[i] = nodes[i]
            /\ \A i \in 1..Len(nodes) :
                   nodes[i].id = Top.node => nodes'[i].data.status = "error"
            /\ variables' = variables
            /\ stack' = Pop(stack)
       /\ NoTargetOfFailed']_vars

\* a failed node with an outgoing edge to an existing node, in a finished run
\* in which some other node succeeded
FailureIsolationWitness ==
    /\ Done
    /\ \E i \in Pos, j \in 1..Len(edges) :
         /\ events[i].e = "error"
         /\ edges[j].source = events[i].node
         /\ FindNode(nodes, edges[j].target, 1) # 0
         /\ NodeAt(edges[j].target).data.status = "idle"
         /\ NodeAt(events[i].node).data.status = "error"
    /\ \E k \in 1..Len(nodes) : nodes[k].data.status = "success"

-----------------------------------------------------------------------------
(* C3  Per-node lifecycle.  During a run a node in success or error keeps    *)
(* its status, and an idle node goes to running only.                        *)
TerminalStatuses ==
    [][runPc = "executing" =>
         \A i \in 1..Len(nodes) :
            /\ nodes[i].data.status \in {"success", "error"} =>
                   nodes'[i].data.status = nodes[i].data.status
            /\ nodes[i].data.status = "idle" =>
                   nodes'[i].data.status \in {"idle", "running"}]_vars

-----------------------------------------------------------------------------
(* C4  No run-level exception.  run() never throws; it ends with no          *)
(* activation left, and short of the final log lines only when there is no   *)
(* trigger.                                                                  *)
RunNeverThrows ==
    /\ runPc # "threw"
    /\ Done =>
         /\ stack = <<>>
         /\ \A i \in Pos : events[i].e = "running" => Settled(events[i].x, Len(events))
         /\ IF HasTrigger
            THEN /\ events # <<>>
                 /\ Len(logs) >= 2
                 /\ logs[Len(logs) - 1].text = "Workflow execution finished."
            ELSE logs[Len(logs)].text = "Error: No Webhook/Start trigger found."

\* a finished run in which one node failed in resolution and another in dispatch
RunNeverThrowsWitness ==
    /\ Done
    /\ \E i, j \in Pos :
         /\ events[i].e = "error" /\ events[i].site = "resolve"
         /\ events[j].e = "error" /\ events[j].site = "dispatch"

-----------------------------------------------------------------------------
(* C5  No trigger.  When the graph has no trigger node, run() only logs: no  *)
(* node is executed or changed, the status sink is never called, and run()   *)
(* returns.                                                                  *)
NoTriggerLogsOnly ==
    ~HasTrigger =>
      /\ nodes = nodes0
      /\ setNodesCalls = 0
      /\ events = <<>>
      /\ stack = <<>>
      /\ variables = <<>>
      /\ runPc \in {"init", "done"}
      /\ Done => logs = <<Line("Starting workflow execution..."),
                          Line("Error: No Webhook/Start trigger found.")>>

\* the run of a graph without trigger has returned, its nodes still carrying
\* the statuses of an earlier run
NoTriggerWitness ==
    /\ ~HasTrigger
    /\ Done
    /\ \E i \in 1..Len(nodes) : nodes[i].data.status = "success"
    /\ \E i \in 1..Len(nodes) : nodes[i].data.status = "error"

-----------------------------------------------------------------------------
(* C6  The environment is cleared once.  this.variables is cleared at most   *)
(* once, and it has been cleared, and is still empty, when the trigger is    *)
(* about to be set to running; a run that executed nodes cleared it exactly  *)
(* once; while nodes execute no entry is ever removed.                       *)
ClearedBeforeTrigger ==
    /\ resets <= 1
    /\ (stack # <<>> \/ events # <<>>) => resets = 1
    /\ (stack # <<>> /\ events = <<>>) => variables = <<>>
    /\ (Done /\ HasTrigger) => resets = 1

-----------------------------------------------------------------------------
(* C7  Reset at run start, as claimed: in every run, once run() has started  *)
(* and until a node is set to running, every node is idle with outputValue   *)
(* and errorMessage cleared.                                                 *)
ResetInEveryRun ==
    (runPc # "init" /\ events = <<>>) => \A i \in 1..Len(nodes) : IsReset(nodes[i])

(* C7, amended: the same in every run whose graph has a trigger node; the    *)
(* node list keeps its ids, types and configuration.                         *)
ResetWhenTriggered ==
    (HasTrigger /\ runPc # "init" /\ events = <<>>) =>
        /\ \A i \in 1..Len(nodes) : IsReset(nodes[i])
        /\ Len(nodes) = Len(nodes0)
        /\ \A i \in 1..Len(nodes) :
               /\ nodes[i].id = nodes0[i].id
               /\ nodes[i].type = nodes0[i].type
               /\ nodes[i].data.label = nodes0[i].data.label

\* the reset has happened, no node is running yet, and the nodes had carried
\* in a success with its output and an error with its message
ResetWhenTriggeredWitness ==
    /\ runPc = "executing"
    /\ events = <<>>
    /\ \E i \in 1..Len(nodes0) :
          nodes0[i].data.status = "success" /\ nodes0[i].data.outputValue # Null
    /\ \E i \in 1..Len(nodes0) :
          nodes0[i].data.status = "error" /\ nodes0[i].data.errorMessage # NoMessage
    /\ \A i \in 1..Len(nodes) : IsReset(nodes[i])

-----------------------------------------------------------------------------
(* C8  Every failure is reported.  An exception in flight carries the        *)
(* message of the error raised (the unresolved name and the known names, or  *)
(* the message of the AI service); the step that handles it sets the node to *)
(* error with exactly that message and appends one log line with the node's  *)
(* label and that message.                                                   *)
RaisedMessage ==
    Throwing =>
        \/ /\ Top.site = "resolve"
           /\ Top.err.kind = "VariableNotFound"
           /\ ~HasOwn(variables, Top.err.name)
           /\ Top.err.avail = ObjectKeys(variables)
        \/ /\ Top.site = "dispatch"
           /\ Top.err \in AiErrors

FailureReported ==
    [][/\ RaisedMessage'
       /\ Throwing =>
            /\ nodes'[FindNode(nodes, Top.node, 1)].data.status = "error"
            /\ nodes'[FindNode(nodes, Top.node, 1)].data.errorMessage = Top.err
            /\ Top.err # NoMessage
            /\ logs' = Append(logs, [Line("Error in node ${label}: ${err.message}")
                                       EXCEPT !.label = NodeAt(Top.node).data.label,
                                              !.msg = Top.err])]_vars

\* a node in error whose message names an unresolved variable, and the log
\* ending with the line for it
FailureReportedWitness ==
    /\ logs # <<>>
    /\ logs[Len(logs)].text = "Error in node ${label}: ${err.message}"
    /\ logs[Len(logs)].msg.kind = "VariableNotFound"
    /\ \E i \in 1..Len(nodes) :
         /\ nodes[i].data.status = "error"
         /\ nodes[i].data.label = logs[Len(logs)].label
         /\ nodes[i].data.errorMessage = logs[Len(logs)].msg

-----------------------------------------------------------------------------
(* C9  One node at a time.  At most one node is running, it is the node of   *)
(* the innermost activation, and every other activation is waiting in its    *)
(* loop for the target it called: nothing starts while a handler is          *)
(* suspended on the AI call or on the simulated delay.                       *)
OneNodeAtATime ==
    /\ Cardinality(Running) <= 1
    /\ \A i \in Running : stack # <<>> /\ nodes[i].id = Top.node
    /\ \A j \in 1..(Len(stack) - 1) : stack[j].pc = "descend"
    /\ \A j \in 1..Len(stack) :
          stack[j].pc \in {"awaitAi", "awaitApi"} =>
              /\ j = Len(stack)
              /\ NodeAt(stack[j].node).data.status = "running"

\* a handler suspended on the AI call below two activations that wait for it
OneNodeAtATimeWitness ==
    /\ Len(stack) >= 3
    /\ Top.pc = "awaitAi"
    /\ Cardinality(Running) = 1
    /\ \E i \in 1..Len(nodes) : nodes[i].data.status = "success"

-----------------------------------------------------------------------------
-----------------------------------------------------------------------------
(* Vocabulary of the payload and environment properties *)

TypeOf(id) == nodes0[FindNode(nodes0, id, 1)].type
DataOf(id) == nodes0[FindNode(nodes0, id, 1)].data
Exists(id) == FindNode(nodes0, id, 1) # 0

-----------------------------------------------------------------------------
\* C11: the payload a target is executed with is exactly the output its
\* caller succeeded with: every activation holds as inbound payload the
\* output of the activation below it, every execution called through an edge
\* started with the output recorded at its caller's success, a passthrough or
\* condition node succeeds with its inbound payload as output, and once the
\* run is over every success has, for each edge out of its node whose target
\* exists, an execution called through that edge with that output.
PayloadPassing ==
    /\ \A i \in 2..Len(stack) : stack[i].inputData = stack[i - 1].outputData
    /\ \A q \in Pos :
          events[q].e = "running" /\ events[q].by # 0 =>
             \E p \in 1..(q - 1) :
                /\ events[p].e = "success" /\ events[p].x = events[q].by
                /\ events[q].input = events[p].out
    /\ \A p \in Pos :
          events[p].e = "success" /\ TypeOf(events[p].node) \in {"variable", "condition"} =>
             events[p].out = events[p].input
    /\ Done =>
          \A p \in Pos : \A j \in 1..Len(edges) :
             /\ events[p].e = "success"
             /\ edges[j].source = events[p].node
             /\ Exists(edges[j].target)
             => \E q \in Pos :
                   /\ events[q].e = "running" /\ events[q].by = events[p].x
                   /\ events[q].edge = j /\ events[q].input = events[p].out

\* the run is over; the trigger's object went through a passthrough or a
\* condition node unchanged and reached the node after it
PayloadPassingWitness ==
    /\ Done
    /\ \E t \in {"variable", "condition"} :
          \E p, q, r \in Pos :
             /\ events[p].e = "success" /\ TypeOf(events[p].node) = "webhook"
             /\ events[p].out.t = "object"
             /\ events[q].e = "success" /\ TypeOf(events[q].node) = t
             /\ events[q].by = events[p].x /\ events[q].out = events[p].out
             /\ events[r].e = "running" /\ events[r].by = events[q].x
             /\ events[r].input = events[p].out

\* the success the step records, if it records one
SuccessStep == Len(events') = Len(events) + 1 /\ events'[Len(events')].e = "success"
Succeeded == events'[Len(events')]

\* what the configuration of a node declares to be stored for output out: the
\* output variable first, then each mapping with a field and a variable whose
\* field the object has, in declared order
DeclaredPrimary(d, out) ==
    IF Trim(d.outputVariableName) # <<>>
    THEN <<[k |-> Trim(d.outputVariableName), v |-> out]>> ELSE <<>>
DeclaredMappings(d, out) ==
    LET ms == d.outputMappings
        kept == SelectSeq([i \in 1..Len(ms) |-> i],
                          LAMBDA i : /\ ms[i].field # <<>> /\ ms[i].variable # <<>>
                                     /\ out.t = "object"
                                     /\ Trim(ms[i].field) \in DOMAIN out.f)
    IN  [i \in 1..Len(kept) |->
            [k |-> Trim(ms[kept[i]].variable), v |-> out.f[Trim(ms[kept[i]].field)]]]
Declared(d, out) == DeclaredPrimary(d, out) \o DeclaredMappings(d, out)

Written(ws, name) == \E i \in 1..Len(ws) : ws[i].k = name
LastWritten(ws, name) ==
    ws[CHOOSE i \in 1..Len(ws) :
          ws[i].k = name /\ \A j \in (i + 1)..Len(ws) : ws[j].k # name].v
Names ==
    {writes[i].k : i \in 1..Len(writes)} \cup {variables[i].k : i \in 1..Len(variables)}
        \cup {<<"n">>, <<"q">>, <<"r">>, <<"w">>}

\* C12 (state part): the environment holds one value per name; a name written
\* since the reset reads, by a bare reference and in a template, as the value
\* of the most recent assignment to it, and a name not written since the reset
\* does not resolve.
LastWriterWinsNow ==
    /\ \A i, j \in 1..Len(variables) : variables[i].k = variables[j].k => i = j
    /\ \A name \in Names :
          IF Written(writes, name)
          THEN /\ resolveVariableValue(name, variables)
                    = [ok |-> TRUE, err |-> NoMessage, val |-> LastWritten(writes, name)]
               /\ resolveVariables(<<Ph(name)>>, variables)
                    = [ok |-> TRUE, err |-> NoMessage,
                       val |-> <<Substitute(LastWritten(writes, name))>>]
          ELSE /\ ~resolveVariableValue(name, variables).ok
               /\ ~resolveVariables(<<Ph(name)>>, variables).ok

Keys == {variables[i].k : i \in 1..Len(variables)}
Unresolved(text) == {i \in 1..Len(text) : text[i].ph /\ text[i].name \notin Keys}
FirstBad(text) == CHOOSE i \in Unresolved(text) : \A j \in Unresolved(text) : i <= j
\* the first of the node's templates (prompt, then apiUrl) with a placeholder
\* that names no variable, or the empty template
BadTemplate(d) ==
    IF Unresolved(d.prompt) # {} THEN d.prompt
    ELSE IF Unresolved(d.apiUrl) # {} THEN d.apiUrl ELSE <<>>
\* a template with every placeholder replaced by its value
Resolved(text) ==
    [i \in 1..Len(text) |->
        IF text[i].ph THEN Substitute(LastWritten(writes, text[i].name))
        ELSE [s |-> text[i].s, json |-> Null]]
AtBody == stack # <<>> /\ Top.pc = "body"

\* C13 (state part): a template without placeholders resolves to itself.
ResolvesToItself ==
    \A i \in 1..Len(nodes) : \A text \in {nodes[i].data.prompt, nodes[i].data.apiUrl} :
       (\A j \in 1..Len(text) : ~text[j].ph) =>
          /\ resolveVariables(text, variables).ok
          /\ resolveVariables(text, variables).val
                = [j \in 1..Len(text) |-> [s |-> text[j].s, json |-> Null]]

\* C13: template resolution is all-or-nothing.  When the node about to run has
\* a template with a placeholder that names no variable, its only step raises
\* the error that names the first such placeholder and lists the known names,
\* and nothing is dispatched: no line is logged, no AI call is made, nothing
\* is stored; the step after it puts the node in error with that message.
\* Every prompt handed to the AI service has all its placeholders replaced,
\* and a template without placeholders resolves to itself.
AllOrNothing ==
    /\ []ResolvesToItself
    /\ [][AtBody /\ BadTemplate(NodeAt(Top.node).data) # <<>> =>
            LET text == BadTemplate(NodeAt(Top.node).data) IN
            /\ stack' = SetTop(stack, [Top EXCEPT
                          !.pc = "thrown", !.site = "resolve",
                          !.err = [kind |-> "VariableNotFound", name |-> text[FirstBad(text)].name,
                                   avail |-> ObjectKeys(variables), text |-> ""]])
            /\ UNCHANGED <<nodes, logs, logSink, variables, writes, aiCalls, events>>]_vars
    /\ [][Throwing /\ Top.site = "resolve" =>
            /\ Len(events') = Len(events) + 1
            /\ events'[Len(events')].e = "error" /\ events'[Len(events')].x = Top.x
            /\ nodes'[FindNode(nodes, Top.node, 1)].data.status = "error"
            /\ nodes'[FindNode(nodes, Top.node, 1)].data.errorMessage = Top.err]_vars
    /\ [][Len(aiCalls') = Len(aiCalls) + 1 =>
            /\ AtBody
            /\ aiCalls'[Len(aiCalls')].prompt = Resolved(NodeAt(Top.node).data.prompt)]_vars

\* the run is over; a node whose prompt names a stored variable and then one
\* never stored is in error with the message that names the second, and lists
\* the first among the known names, and was never handed to the AI service; a
\* prompt without placeholders and one with a stored placeholder were
AllOrNothingWitness ==
    /\ Done
    /\ \E i \in 1..Len(nodes) : \E a, b \in 1..Len(nodes[i].data.prompt) :
          LET text == nodes[i].data.prompt
              msg == nodes[i].data.errorMessage
          IN  /\ a < b /\ text[a].ph /\ text[b].ph
              /\ nodes[i].data.status = "error"
              /\ msg.kind = "VariableNotFound" /\ msg.name = text[b].name
              /\ \E k \in 1..Len(msg.avail) : msg.avail[k] = text[a].name
              /\ \A c \in 1..Len(aiCalls) : aiCalls[c].node # nodes[i].id
    /\ \E c \in 1..Len(aiCalls) :
          aiCalls[c].prompt = <<[s |-> "hello", json |-> Null]>>

\* the mappings of d that ask for a field the object out does not have
MissingFields(d, out) ==
    SelectSeq(d.outputMappings,
              LAMBDA mp : /\ mp.field # <<>> /\ mp.variable # <<>>
                          /\ Trim(mp.field) \notin DOMAIN out.f)
\* the lines of lg after the first n that warn of a missing field
MissingWarnings(lg, n) ==
    SelectSeq(SubSeq(lg, n + 1, Len(lg)),
              LAMBDA l : l.text = "Warning: Field '${fieldName}' not found in output.")

\* C14: when a node succeeds with an object as result, what is assigned is
\* the output variable (if any) and then, for each mapping whose field the
\* object has, the value of that field under the mapping's variable, in
\* declared order, so that each such variable holds the field's value unless
\* a later mapping of the node assigns it again; a mapping whose field is
\* missing assigns nothing and logs one warning that names the field, the
\* mappings after it are still applied, and the node is marked success.
OutputMapping ==
    [][SuccessStep /\ Succeeded.out.t = "object" =>
         LET d == DataOf(Succeeded.node)
             out == Succeeded.out
             ds == DeclaredMappings(d, out)
             miss == MissingFields(d, out)
             warned == MissingWarnings(logs', Len(logs))
         IN  /\ writes' = writes \o DeclaredPrimary(d, out) \o ds
             /\ \A i \in 1..Len(ds) :
                   (\A j \in (i + 1)..Len(ds) : ds[j].k # ds[i].k) =>
                      /\ HasOwn(variables', ds[i].k)
                      /\ Lookup(variables', ds[i].k) = ds[i].v
             /\ {variables'[i].k : i \in 1..Len(variables')}
                   = Keys \cup {ds[i].k : i \in 1..Len(ds)}
                          \cup {DeclaredPrimary(d, out)[i].k : i \in 1..Len(DeclaredPrimary(d, out))}
             /\ Len(warned) = Len(miss)
             /\ \A i \in 1..Len(miss) : warned[i].name = Trim(miss[i].field)
             /\ nodes'[FindNode(nodes, Succeeded.node, 1)].data.status = "success"]_vars

\* a node has just succeeded with an object: the mapping of a missing field
\* stored nothing and was warned of, the mappings declared before and after it
\* stored their fields, and the node is marked success
OutputMappingWitness ==
    /\ stack # <<>> /\ Top.pc = "descend" /\ Top.outputData.t = "object"
    /\ LET ms == DataOf(Top.node).outputMappings IN
       \E a, b, c \in 1..Len(ms) :
          /\ a < b /\ b < c
          /\ Trim(ms[b].field) \notin DOMAIN Top.outputData.f
          /\ ~HasOwn(variables, Trim(ms[b].variable))
          /\ Lookup(variables, Trim(ms[a].variable)) = Top.outputData.f[Trim(ms[a].field)]
          /\ Lookup(variables, Trim(ms[c].variable)) = Top.outputData.f[Trim(ms[c].field)]
          /\ \E l \in 1..Len(logs) :
                /\ logs[l].text = "Warning: Field '${fieldName}' not found in output."
                /\ logs[l].name = Trim(ms[b].field)
    /\ NodeAt(Top.node).data.status = "success"

\* the lines of lg after the first n that are warnings
Warnings(lg, n) ==
    SelectSeq(SubSeq(lg, n + 1, Len(lg)),
              LAMBDA l : l.text \in
                 {"Warning: Output Mappings ignored because output is not an object.",
                  "Warning: Field '${fieldName}' not found in output.",
                  "Warning: ${e.message}"})
BothPaths(d) == Trim(d.outputVariableName) # <<>> /\ Len(d.outputMappings) > 0

\* C15: the two extraction paths are independent.  When a node with an output
\* variable and with mappings succeeds with a string or with null, the result
\* is assigned to the output variable and to nothing else, exactly one warning
\* is logged, the one that the mappings are ignored, and the node is marked
\* success with that result.
IndependentPaths ==
    [][SuccessStep /\ Succeeded.out.t \in {"string", "null"}
          /\ BothPaths(DataOf(Succeeded.node)) =>
         LET d == DataOf(Succeeded.node)
             name == Trim(d.outputVariableName)
             n == nodes'[FindNode(nodes, Succeeded.node, 1)]
         IN  /\ HasOwn(variables', name) /\ Lookup(variables', name) = Succeeded.out
             /\ writes' = Append(writes, [k |-> name, v |-> Succeeded.out])
             /\ \A i \in 1..Len(variables') :
                   variables'[i].k # name =>
                      /\ HasOwn(variables, variables'[i].k)
                      /\ Lookup(variables, variables'[i].k) = variables'[i].v
             /\ Warnings(logs', Len(logs))
                   = <<Line("Warning: Output Mappings ignored because output is not an object.")>>
             /\ n.data.status = "success" /\ n.data.outputValue = Succeeded.out]_vars

\* the run is over; a node with an output variable and a mapping succeeded
\* once with null and once with a string, the mapping's variable was never
\* assigned, and the output variable holds the later result
IndependentPathsWitness ==
    /\ Done
    /\ \E p, q \in Pos :
          /\ p < q /\ events[p].node = events[q].node
          /\ events[p].e = "success" /\ events[q].e = "success"
          /\ {events[p].out.t, events[q].out.t} = {"string", "null"}
          /\ BothPaths(DataOf(events[p].node))
          /\ \A i \in 1..Len(DataOf(events[p].node).outputMappings) :
                ~Written(writes, Trim(DataOf(events[p].node).outputMappings[i].variable))
          /\ Lookup(variables, Trim(DataOf(events[p].node).outputVariableName)) = events[q].out
          /\ NodeAt(events[p].node).data.status = "success"
    /\ Len(Warnings(logs, 0)) >= 2

Ids(ns) == [i \in 1..Len(ns) |-> ns[i].id]
Statuses(ns) == [i \in 1..Len(ns) |-> ns[i].data.status]
\* the positions at which two node lists differ in status
Changed(ns, ms) == {i \in 1..Len(ns) : ns[i].data.status # ms[i].data.status}

\* C16 as stated: the status sink is invoked exactly once per node status
\* transition (idle to running, running to success, running to error) and at
\* no other time, each time with the full node set.
StatusSinkPerTransition ==
    [][setNodesCalls' # setNodesCalls \/ Statuses(nodes') # Statuses(nodes) =>
         /\ setNodesCalls' = setNodesCalls + 1
         /\ Ids(setNodesArg') = Ids(nodes0)
         /\ \E i \in 1..Len(nodes) :
               /\ Changed(nodes, nodes') = {i}
               /\ <<nodes[i].data.status, nodes'[i].data.status>>
                     \in {<<"idle", "running">>, <<"running", "success">>,
                          <<"running", "error">>}]_vars

\* C16: the status sink is invoked once by the reset at the start of a run
\* that has a trigger, with every node idle, and once each time executeNode
\* marks a node running, success or error, and at no other time; each call
\* carries the engine's whole node list, with the ids the run was given, in
\* which only the marked node differs from before.
StatusSink ==
    /\ [](setNodesCalls = Len(events) + resets)
    /\ [](~HasTrigger => setNodesCalls = 0)
    /\ [][setNodesCalls' # setNodesCalls \/ nodes' # nodes \/ events' # events =>
            /\ setNodesCalls' = setNodesCalls + 1
            /\ setNodesArg' = nodes' /\ Ids(setNodesArg') = Ids(nodes0)
            /\ \/ /\ runPc = "init" /\ events' = events
                  /\ \A i \in 1..Len(nodes') : nodes'[i].data.status = "idle"
               \/ /\ Len(events') = Len(events) + 1
                  /\ LET ev == events'[Len(events')]
                         at == FindNode(nodes, ev.node, 1)
                     IN  /\ nodes'[at].data.status = ev.e
                         /\ \A i \in 1..Len(nodes) : i # at => nodes'[i] = nodes[i]]_vars

\* the run is over: the reset changed the status of two nodes in one call,
\* executions were marked running, success and error, and the sink was called
\* once for the reset and once for each mark
StatusSinkWitness ==
    /\ Done
    /\ Cardinality({i \in 1..Len(nodes0) : nodes0[i].data.status # "idle"}) >= 2
    /\ \A e \in {"running", "success", "error"} : \E q \in Pos : events[q].e = e
    /\ setNodesCalls = Len(events) + 1
    /\ setNodesArg = nodes /\ Len(setNodesArg) = 3

\* C17 (state part): the log sink has been called once per line of the log,
\* its last argument is the whole log, and each call so far carried the
\* argument of the call before it (none before the first) and one more line.
LogSinkFollows ==
    /\ logSink.calls = Len(logs)
    /\ logSink.arg = logs
    /\ logSink.grew

\* C17: the log is append-only and the log sink is invoked once per appended
\* line with the full log so far.  LogSinkFollows holds in every state, and a
\* step that changes the log leaves every line it had in place and only adds
\* lines after them.
LogAppendOnly ==
    /\ []LogSinkFollows
    /\ [][logs' # logs =>
            /\ Len(logs') > Len(logs)
            /\ SubSeq(logs', 1, Len(logs)) = logs
            /\ logSink'.calls - logSink.calls = Len(logs') - Len(logs)]_vars

\* the run is over: the trigger logged three lines in a row while it stored
\* its output, a node failed, and the sink was called once for each line
LogAppendOnlyWitness ==
    /\ Done
    /\ \E i \in 1..(Len(logs) - 2) :
          /\ logs[i].text = "Loaded simulation JSON payload."
          /\ logs[i + 1].text = "Stored field '${fieldName}' to variable '${varName}'"
          /\ logs[i + 2].text = "Node ${label} completed."
    /\ \E i \in 1..Len(logs) : logs[i].text = "Error in node ${label}: ${err.message}"
    /\ logSink.calls = Len(logs) /\ Len(logs) >= 8

-----------------------------------------------------------------------------
(* Vocabulary of the traversal properties *)

TriggerId ==
    nodes0[CHOOSE i \in 1..Len(nodes0) :
              /\ nodes0[i].type = "webhook"
              /\ \A j \in 1..(i - 1) : nodes0[j].type # "webhook"].id
\* the nodes one edge away from a node of S, and S with them
Targets(S) ==
    {edges[j].target : j \in {k \in 1..Len(edges) :
                                 edges[k].source \in S /\ Exists(edges[k].target)}}
Grow(S) == S \cup Targets(S)
\* with three nodes, three rounds reach everything that can be reached
Reachable == Grow(Grow(Grow({TriggerId})))
After(id) == Grow(Grow(Grow(Targets({id}))))
AcyclicFromTrigger == \A id \in Reachable : id \notin After(id)
Finished ==
    /\ Done /\ Running = {}
    /\ \E i \in 1..Len(logs) : logs[i].text = "Workflow execution finished."

\* The runs that are followed to their end are those of the graphs whose
\* nodes declare at most one mapping.  The engine is never stopped: run() and
\* the calls it awaits take their next step, and a pending AI call or API
\* delay returns or fails.
FairInit == Init /\ nodes \notin {MappingNodes, RecoveryNodes}
FairSpec == FairInit /\ [][Next]_vars /\ WF_vars(Next)

\* C18: termination.  A run of a graph with a trigger and with no cycle that
\* can be reached from the trigger eventually logs the finished line and is
\* over, with no node running then or afterwards.
Termination ==
    /\ (HasTrigger /\ AcyclicFromTrigger) ~> Finished
    /\ [](Done => Running = {})

\* a run is over and has logged the finished line: the graph has no cycle,
\* the trigger has two targets and one of them a target of its own, all three
\* nodes were executed, one of them failed, and none is running
TerminationWitness ==
    /\ HasTrigger /\ AcyclicFromTrigger /\ Finished
    /\ Cardinality(Targets({TriggerId})) = 2
    /\ \E id \in Targets({TriggerId}) : Targets({id}) # {}
    /\ \A id \in NodeIds : \E q \in Pos : events[q].e = "running" /\ events[q].node = id
    /\ \E q \in Pos : events[q].e = "error"

\* the nodes that were executed and succeeded every time
AlwaysSucceeded ==
    {id \in NodeIds : /\ \E q \in Pos : events[q].node = id /\ events[q].e = "success"
                      /\ \A q \in Pos : events[q].node = id => events[q].e # "error"}
TargetsIn(S, A) ==
    {edges[j].target : j \in {k \in 1..Len(edges) :
                                 edges[k].source \in S /\ edges[k].target \in A}}
GrowIn(S, A) == S \cup TargetsIn(S, A)
\* some node of A is reached from itself through nodes of A
CycleIn(A) == \E id \in A : id \in GrowIn(GrowIn(GrowIn(TargetsIn({id}, A), A), A), A)
\* the position among the outgoing edges of the execution on top of the stack
\* of the next one whose target exists (0: none)
NextExisting ==
    LET out == SelectSeq([j \in 1..Len(edges) |-> j], LAMBDA j : edges[j].source = Top.node)
        left == {i \in (Top.k + 1)..Len(out) : Exists(edges[out[i]].target)}
    IN  IF left = {} THEN 0 ELSE out[CHOOSE i \in left : \A j \in left : i <= j]

\* C19 (state part): a run in which the nodes of a cycle were executed and
\* succeeded every time is not over.
NeverFinishedOnCycle == Done => ~CycleIn(AlwaysSucceeded)

\* C19: there is no cycle detection.  A run that went round a cycle whose
\* nodes always succeed never reaches its end, and an execution that has
\* succeeded and has an outgoing edge left whose target exists does nothing
\* but call that target with its output, whether or not the target was
\* executed before.
NoCycleDetection ==
    /\ []NeverFinishedOnCycle
    /\ [][stack # <<>> /\ Top.pc = "descend" /\ NextExisting # 0 =>
            /\ Len(stack') = Len(stack) + 1
            /\ stack'[Len(stack')].node = edges[NextExisting].target
            /\ stack'[Len(stack')].edge = NextExisting
            /\ stack'[Len(stack')].pc = "begin"]_vars

\* the traversal is as deep as it is followed: the trigger is on the stack
\* twice, the second time called by a node that the trigger had called and
\* that had already been executed, and every execution so far succeeded
NoCycleDetectionWitness ==
    /\ Len(stack) = MaxDepth
    /\ \E i, j \in 1..Len(stack) :
          /\ i < j /\ stack[i].node = stack[j].node /\ stack[j].pc = "descend"
          /\ stack[i].node = TriggerId
    /\ \A q \in Pos : events[q].e # "error"
    /\ CycleIn(AlwaysSucceeded)
    /\ ~Done

TriggerToText == <<[source |-> "n1", target |-> "n2"]>>
ResultName == <<"r", "e", "s", "u", "l", "t">>
\* no call of the AI service failed: the service is the stub that returns "10"
StubAnswered == \A q \in Pos : ~(events[q].e = "error" /\ events[q].site = "dispatch")
BothSucceeded ==
    /\ NodeAt("n1").data.status = "success"
    /\ NodeAt("n2").data.status = "success"

\* C20 as stated: a trigger with JSON payload {"n": 5}, a generate-text node
\* after it with prompt "double {{n}}" and output variable result, and an AI
\* service that returns "10": after the run the environment holds
\* result = "10" and both nodes are in success.
EndToEndAsStated ==
    nodes0 = EndToEndNodes /\ edges = TriggerToText /\ Done /\ StubAnswered =>
       /\ HasOwn(variables, ResultName) /\ Lookup(variables, ResultName) = Str("10")
       /\ BothSucceeded

\* C20: the same when the trigger also maps the field n of its payload to
\* the variable n: the AI service is called once, with the prompt "double 5",
\* and after the run the environment holds n = 5 and result = "10" and both
\* nodes are in success.
EndToEnd ==
    nodes0 = EndToEndMappedNodes /\ edges = TriggerToText /\ Done /\ StubAnswered =>
       /\ HasOwn(variables, ResultName) /\ Lookup(variables, ResultName) = Str("10")
       /\ HasOwn(variables, <<"n">>) /\ Lookup(variables, <<"n">>) = Num("5")
       /\ Len(aiCalls) = 1
       /\ aiCalls[1].prompt = <<[s |-> "double ", json |-> Null], [s |-> "5", json |-> Null]>>
       /\ BothSucceeded
       /\ NodeAt("n2").data.outputValue = Str("10")

\* the run of the mapped graph is over and the AI service answered "10"
EndToEndWitness ==
    /\ nodes0 = EndToEndMappedNodes /\ edges = TriggerToText /\ Done /\ StubAnswered
    /\ Lookup(variables, ResultName) = Str("10")
    /\ \E q \in Pos : events[q].e = "success" /\ events[q].node = "n2"

-----------------------------------------------------------------------------
\* the step is the reset of run() (lines 148-151)
ResetStep == runPc = "init" /\ runPc' = "executing"

\* the step puts the execution on top of the stack in error
ErrorStep == Len(events') = Len(events) + 1 /\ events'[Len(events')].e = "error"

(* C21  The environment is written by extraction only.  A step changes the   *)
(* environment only if it is the reset of run(), which empties it, or the    *)
(* step in which the execution on top of the stack reaches success, and then *)
(* it becomes what the extraction of that node makes of the dispatched       *)
(* output; every other step (resolution, dispatch, the status updates,       *)
(* logging, calling a target, returning) leaves it as it is.  An execution   *)
(* that ends in error ends with the environment it began with.               *)
EnvironmentFrame ==
    [][/\ variables' # variables =>
             \/ ResetStep /\ variables' = <<>>
             \/ /\ SuccessStep
                /\ Succeeded.x = Top.x /\ Succeeded.node = Top.node
                /\ variables' = StoreOutput(NodeAt(Top.node).data, Succeeded.out,
                                            variables).env
       /\ ErrorStep => variables' = variables
       /\ \A q \in 1..Len(events') :
             events'[q].e = "error" =>
                \E p \in 1..(q - 1) :
                   /\ events'[p].e = "running" /\ events'[p].x = events'[q].x
                   /\ events'[p].env = events'[q].env]_vars

\* a generate node that was called with a non-empty environment and failed,
\* and one that failed while resolving, with the environment still what the
\* failed execution began with
EnvironmentFrameWitness ==
    /\ variables # <<>>
    /\ \E q \in Pos :
          /\ events[q].e = "error" /\ events[q].site = "dispatch"
          /\ events[q].env = variables
          /\ DataOf(events[q].node).outputVariableName # <<>>
    /\ \E q \in Pos :
          /\ events[q].e = "error" /\ events[q].site = "resolve"
          /\ events[q].env # <<>>

-----------------------------------------------------------------------------
(* C22  Every key of the environment is a non-empty name: whatever output    *)
(* variable names and mapping targets the nodes declare (empty and blank     *)
(* ones included), no entry of the environment is stored under the empty     *)
(* string.                                                                   *)
NonEmptyKeys == \A i \in 1..Len(variables) : variables[i].k # <<>>

-----------------------------------------------------------------------------
\* the step hands node data to executeAiNode
CallStep == Len(aiCalls') = Len(aiCalls) + 1
Called == aiCalls'[Len(aiCalls')]

\* the references of a list of inputs that name no variable of the environment
AbsentRefs(ins) ==
    SelectSeq(ins, LAMBDA e : e.type = "variable" /\ StripReference(e.value) \notin Keys)

\* the warnings about unresolved references among the lines a step appends
NewRefWarnings ==
    SelectSeq(SubSeq(logs', Len(logs) + 1, Len(logs')),
              LAMBDA l : l.text = "Warning: ${e.message}")

\* the node has no list of inputs, and its single input reference names no
\* variable of the environment
SingleRefUnresolved(d) ==
    /\ d.inputs = <<>> /\ d.inputImageVariable # <<>>
    /\ StripReference(d.inputImageVariable) \notin Keys

(* C23  Resolution of a list of inputs tolerates failures.  When a node with *)
(* a non-empty list of inputs and resolvable templates is at the start of    *)
(* its body, its next step does not fail, whatever its single input          *)
(* reference is; when the step hands the node data to the AI service, the    *)
(* list handed over has the length of the declared one and, position by      *)
(* position, the declared entry itself for a file and for a reference that   *)
(* names no variable, the variable's value for a reference that names one,   *)
(* and the step logs one warning for each reference that names no variable,  *)
(* in order, with the name.  A node without a list of inputs whose single    *)
(* input reference names no variable fails in its next step, before any      *)
(* dispatch: nothing is handed to the AI service, and the step that handles  *)
(* the failure sets the node to error.                                       *)
InputsTolerant ==
    [][/\ AtBody /\ Len(NodeAt(Top.node).data.inputs) > 0
          /\ BadTemplate(NodeAt(Top.node).data) = <<>>
          => /\ stack'[Len(stack)].pc # "thrown"
             /\ TypeOf(Top.node) \in {"ai-text", "ai-image"} => CallStep
       /\ CallStep /\ Len(NodeAt(Called.node).data.inputs) > 0 =>
             LET ins == NodeAt(Called.node).data.inputs
                 res == Called.inputs
                 bad == AbsentRefs(ins)
             IN  /\ Called.node = Top.node
                 /\ Len(res) = Len(ins)
                 /\ \A i \in 1..Len(ins) :
                       /\ res[i].type = ins[i].type
                       /\ ins[i].type = "file" => res[i] = ins[i]
                       /\ ins[i].type = "variable" =>
                             IF StripReference(ins[i].value) \in Keys
                             THEN res[i].data = Lookup(variables, StripReference(ins[i].value))
                             ELSE res[i] = ins[i]
                 /\ Len(NewRefWarnings) = Len(bad)
                 /\ \A k \in 1..Len(bad) :
                       /\ NewRefWarnings[k].msg.kind = "VariableNotFound"
                       /\ NewRefWarnings[k].msg.name = StripReference(bad[k].value)
       /\ AtBody /\ SingleRefUnresolved(NodeAt(Top.node).data) =>
             /\ stack'[Len(stack)].pc = "thrown" /\ stack'[Len(stack)].site = "resolve"
             /\ aiCalls' = aiCalls /\ nodes' = nodes /\ variables' = variables
             /\ BadTemplate(NodeAt(Top.node).data) = <<>> =>
                   /\ stack'[Len(stack)].err.kind = "VariableNotFound"
                   /\ stack'[Len(stack)].err.name =
                         StripReference(NodeAt(Top.node).data.inputImageVariable)
       /\ Throwing /\ Top.site = "resolve" =>
             /\ nodes'[FindNode(nodes, Top.node, 1)].data.status = "error"
             /\ \A c \in 1..Len(aiCalls') : aiCalls'[c].x # Top.x]_vars

\* the text node was handed its three inputs (the file and the unresolved
\* reference as declared, the other reference resolved) after one warning,
\* although its single input reference is unresolved too, and the image node
\* with that single reference alone is in error without having been handed over
InputsTolerantWitness ==
    /\ nodes0 = RecoveryNodes
    /\ \E c \in 1..Len(aiCalls) :
          /\ aiCalls[c].node = "n2"
          /\ aiCalls[c].inputs[1] = DataOf("n2").inputs[1]
          /\ aiCalls[c].inputs[2] = DataOf("n2").inputs[2]
          /\ aiCalls[c].inputs[3].data = Str("{bad")
    /\ \E i \in 1..Len(logs) :
          /\ logs[i].text = "Warning: ${e.message}"
          /\ logs[i].msg.name = <<"i">>
    /\ NodeAt("n3").data.status = "error"
    /\ NodeAt("n3").data.errorMessage.kind = "VariableNotFound"
    /\ NodeAt("n3").data.errorMessage.name = <<"i">>
    /\ \A c \in 1..Len(aiCalls) : aiCalls[c].node # "n3"

-----------------------------------------------------------------------------
\* { error: "Invalid JSON Payload", raw: text }
ErrorShaped(text) ==
    Obj(<<"e", "r", "r", "o", "r">> :> Str("Invalid JSON Payload")
        @@ <<"r", "a", "w">> :> Str(text))

\* a JSON trigger whose test payload is there and does not parse
BadPayload(d) ==
    d.webhookContentType # "form-data" /\ d.webhookPayload.text # "" /\ ~d.webhookPayload.valid

\* the success events of the triggers whose payload does not parse
Recovered ==
    {p \in 1..Len(events) :
        /\ events[p].e = "success" /\ TypeOf(events[p].node) = "webhook"
        /\ BadPayload(DataOf(events[p].node))}

\* what a trigger makes of its configuration alone
FromConfiguration(d, out) ==
    IF d.webhookContentType = "form-data"
    THEN /\ out.t = "object"
         /\ DOMAIN out.f = {d.webhookFormData[i].key : i \in 1..Len(d.webhookFormData)} \ {<<>>}
    ELSE IF d.webhookPayload.text = ""
    THEN /\ out.t = "object"
         /\ DOMAIN out.f = {<<"t", "r", "i", "g", "g", "e", "r">>,
                            <<"t", "i", "m", "e", "s", "t", "a", "m", "p">>}
         /\ out.f[<<"t", "r", "i", "g", "g", "e", "r">>] = Str("manual")
    ELSE IF d.webhookPayload.valid THEN out = d.webhookPayload.value
    ELSE out = ErrorShaped(d.webhookPayload.text)

(* C24  A trigger payload that does not parse is recoverable.  When a JSON   *)
(* trigger whose test payload does not parse is at the start of its body     *)
(* (and its templates and single input reference resolve), its next step     *)
(* takes it to success, not to error: the step logs the parse failure and no *)
(* error of the node, the output is the object holding the fixed error text  *)
(* and the raw payload text, the assignments the node declares are made on   *)
(* that object, and every execution called by it receives that object.  The  *)
(* output of every trigger that succeeds is what its configuration alone     *)
(* gives, whatever it received.                                              *)
PayloadRecoverable ==
    [][/\ /\ AtBody /\ TypeOf(Top.node) = "webhook" /\ BadPayload(NodeAt(Top.node).data)
          /\ BadTemplate(NodeAt(Top.node).data) = <<>>
          /\ ~SingleRefUnresolved(NodeAt(Top.node).data)
          => LET d == NodeAt(Top.node).data
                 obj == ErrorShaped(d.webhookPayload.text)
                 new == SubSeq(logs', Len(logs) + 1, Len(logs'))
             IN  /\ SuccessStep /\ Succeeded.x = Top.x /\ Succeeded.out = obj
                 /\ nodes'[FindNode(nodes, Top.node, 1)].data.status = "success"
                 /\ nodes'[FindNode(nodes, Top.node, 1)].data.outputValue = obj
                 /\ \E i \in 1..Len(new) :
                       new[i].text = "Error parsing Webhook payload, using default."
                 /\ \A i \in 1..Len(new) :
                       new[i].text # "Error in node ${label}: ${err.message}"
                 /\ writes' = writes \o Declared(d, obj)
                 /\ stack'[Len(stack)].pc = "descend"
       /\ \A q \in 1..Len(events') :
             events'[q].e = "running" =>
                \A p \in 1..(q - 1) :
                   /\ events'[p].e = "success" /\ events'[p].x = events'[q].by
                   /\ TypeOf(events'[p].node) = "webhook"
                   /\ BadPayload(DataOf(events'[p].node))
                   => events'[q].input = ErrorShaped(DataOf(events'[p].node).webhookPayload.text)
       /\ \A p \in 1..Len(events') :
             events'[p].e = "success" /\ TypeOf(events'[p].node) = "webhook" =>
                FromConfiguration(DataOf(events'[p].node), events'[p].out)]_vars

\* the trigger whose payload does not parse succeeded twice, on different
\* inbound payloads, with the error-shaped object both times; the raw text is
\* stored under w, and a target was called with the object
PayloadRecoverableWitness ==
    /\ nodes0 = RecoveryNodes
    /\ NodeAt("n1").data.status = "success"
    /\ NodeAt("n1").data.outputValue = ErrorShaped("{bad")
    /\ HasOwn(variables, <<"w">>) /\ Lookup(variables, <<"w">>) = Str("{bad")
    /\ \E i \in 1..Len(logs) : logs[i].text = "Error parsing Webhook payload, using default."
    /\ \E p \in Recovered : \E q \in Recovered :
          /\ events[p].input # events[q].input
          /\ events[p].out = events[q].out
    /\ \E q \in Pos :
          /\ events[q].e = "running" /\ events[q].node = "n2"
          /\ events[q].input = ErrorShaped("{bad")

-----------------------------------------------------------------------------
\* the step is the failure of a pending call of executeAiNode
FailStep ==
    /\ stack # <<>> /\ Top.pc = "awaitAi"
    /\ Len(stack') = Len(stack) /\ stack'[Len(stack)].pc = "thrown"

\* the message thrown in a FailStep, and the error of the service behind it
Thrown == stack'[Len(stack)].err
Cause == stack'[Len(stack)].cause

\* the text of an error indicates a token-limit condition, a rejected schema
TokenLimitText(text) ==
    \E i \in 1..Len(text) : \E j \in i..Len(text) :
       SubSeq(text, i, j) \in {<<"t", "o", "k", "e", "n">>,
                               <<"e", "x", "c", "e", "e", "d", "s">>}
SchemaRejectionText(text) ==
    \E i \in 1..Len(text) : \E j \in i..Len(text) :
       SubSeq(text, i, j) =
          <<"I", "N", "V", "A", "L", "I", "D", "_", "A", "R", "G", "U", "M", "E", "N", "T">>

\* the single input image handed over is there and is not a data URL
BadImage(d) ==
    /\ d.inputs = <<>>
    /\ ResolveNodeData(d, variables).inputImage \notin {Null, Str("")}
    /\ ResolveNodeData(d, variables).inputImage # Str("data:image/png;base64,AAAA")
\* the response schema is there and does not parse
BadSchema(d) == d.jsonSchema \notin {"", "{\"type\": \"OBJECT\"}"}
\* a response schema is sent with the request
WithSchema(d) == d.jsonSchema # "" /\ ~BadSchema(d)

\* what the claim lets the node see of the service's error
Classified(message, d) ==
    IF TokenLimitText(message) THEN TokenLimitExceeded
    ELSE IF SchemaRejectionText(message) /\ WithSchema(d) THEN SchemaRejected(message)
    ELSE Raised(message)

\* a failure before the request carries its own message
OwnMessage(d) ==
    /\ Cause = <<>>
    /\ Thrown =
         IF ~apiKey THEN ErrorMessage("API_KEY is missing from environment variables")
         ELSE IF BadImage(d)
         THEN ErrorMessage("Input image variable must contain a valid Data URL (e.g. data:image/png;base64,...).")
         ELSE ErrorMessage("Invalid JSON Schema provided. Please check JSON syntax.")

\* the failure is fatal to the node only: the node is set to error with the
\* message thrown and executeNode returns to its caller
FatalToNodeOnly ==
    Throwing /\ Top.site = "dispatch" =>
       /\ nodes'[FindNode(nodes, Top.node, 1)].data.status = "error"
       /\ nodes'[FindNode(nodes, Top.node, 1)].data.errorMessage = Top.err
       /\ \A i \in 1..Len(nodes) :
             nodes[i].id # Top.node => nodes'[i] = nodes[i]
       /\ stack' = Pop(stack) /\ runPc' = runPc

\* C25 as stated: the message of the service's error reaches the node as it
\* is, unless its text indicates a token-limit condition or, with a response
\* schema sent, a rejected schema.
VerbatimUnlessClassified ==
    [][/\ FailStep =>
             LET d == NodeAt(Top.node).data IN
             IF ~apiKey \/ BadImage(d) \/ BadSchema(d) THEN OwnMessage(d)
             ELSE Len(Cause) = 1 /\ Thrown = Classified(Cause[1].message, d)
       /\ FatalToNodeOnly]_vars

(* C25  A failed AI invocation is fatal to the node only, and its message is *)
(* classified.  A call fails before the request with the message of the      *)
(* first check that fails (credentials, then the single input image, then    *)
(* the response schema).  Otherwise the text of the service's error is its   *)
(* message or, when the message is empty, the string form of the error; a    *)
(* text containing "token" or "exceeds" gives the token-limit message; any   *)
(* other text containing "INVALID_ARGUMENT" gives, when a response schema    *)
(* was sent, the schema-rejection message with the text as details; any      *)
(* other text is the message itself, and the fixed "Failed to execute AI     *)
(* request" takes the place of an empty text.  The step that handles the     *)
(* failure sets the node, and no other, to error with that message and       *)
(* returns to the caller.                                                    *)
AiFailureClassified ==
    [][/\ FailStep =>
             LET d == NodeAt(Top.node).data IN
             IF ~apiKey \/ BadImage(d) \/ BadSchema(d) THEN OwnMessage(d)
             ELSE /\ Len(Cause) = 1
                  /\ LET text == IF Cause[1].message # <<>> THEN Cause[1].message
                                 ELSE Cause[1].name
                     IN  Thrown = IF text = <<>>
                                  THEN ErrorMessage("Failed to execute AI request")
                                  ELSE Classified(text, d)
       /\ FatalToNodeOnly]_vars

\* a request with a response schema was rejected with a text that indicates
\* both conditions, and the token-limit message is in flight; an earlier one
\* failed with the schema-rejection message
AiFailureClassifiedWitness ==
    /\ Throwing /\ Top.site = "dispatch"
    /\ WithSchema(NodeAt(Top.node).data)
    /\ Len(Top.cause) = 1
    /\ TokenLimitText(Top.cause[1].message) /\ SchemaRejectionText(Top.cause[1].message)
    /\ Top.err = TokenLimitExceeded
    /\ \E i \in 1..Len(logs) :
          /\ logs[i].text = "Error in node ${label}: ${err.message}"
          /\ logs[i].msg = SchemaRejected(InvalidArgument \o <<":">>)

-----------------------------------------------------------------------------
\* the executions of node id, and those of them that succeeded
ExecutionsOf(id) == {q \in Pos : events[q].e = "running" /\ events[q].node = id}
SuccessesOf(id) == {p \in Pos : events[p].e = "success" /\ events[p].node = id}

\* the invocations of node id: a success of the source of an edge to id,
\* together with that edge
Invocations(id) ==
    {pj \in Pos \X (1..Len(edges)) :
        /\ edges[pj[2]].target = id
        /\ pj[1] \in SuccessesOf(edges[pj[2]].source)}

\* the assignments of the first n transitions, in order
RECURSIVE WritesUpTo(_)
WritesUpTo(n) ==
    IF n = 0 THEN <<>>
    ELSE WritesUpTo(n - 1) \o
         (IF events[n].e = "success"
          THEN Declared(DataOf(events[n].node), events[n].out) ELSE <<>>)

(* C26  There is no visited set.  Every execution that run() did not start   *)
(* was called by one success of the source of one edge to its node, with the *)
(* output of that success as payload, and no success calls twice through one *)
(* edge.  Once the run is over, every success of the source of an edge has   *)
(* called the target of that edge (if it exists) through it, so a node is    *)
(* executed once for each success of a source of each edge to it (one more   *)
(* for the trigger that run() starts): k times when it is the target of k    *)
(* edges whose sources succeed once each.  Every success makes the writes    *)
(* its node declares again, and calls its targets again.                     *)
NoVisitedSet ==
    /\ \A q \in Pos :
          events[q].e = "running" /\ events[q].by # 0 =>
             /\ \E p \in 1..(q - 1) :
                   /\ events[p].e = "success" /\ events[p].x = events[q].by
                   /\ edges[events[q].edge].source = events[p].node
                   /\ edges[events[q].edge].target = events[q].node
                   /\ events[q].input = events[p].out
             /\ \A r \in Pos :
                   /\ events[r].e = "running"
                   /\ events[r].by = events[q].by /\ events[r].edge = events[q].edge
                   => r = q
    /\ writes = WritesUpTo(Len(events))
    /\ Done =>
          \A id \in NodeIds :
             Exists(id) =>
                /\ \A pj \in Invocations(id) :
                      \E q \in ExecutionsOf(id) :
                         /\ events[q].by = events[pj[1]].x /\ events[q].edge = pj[2]
                         /\ events[q].input = events[pj[1]].out
                /\ Cardinality(ExecutionsOf(id)) =
                      Cardinality(Invocations(id))
                         + Cardinality({q \in ExecutionsOf(id) : events[q].by = 0})

\* the run is over; a node that stores its output was called through two
\* edges, by two nodes with different outputs, succeeded both times and each
\* time made its write
NoVisitedSetWitness ==
    /\ Done
    /\ \E id \in NodeIds :
          /\ Exists(id) /\ Trim(DataOf(id).outputVariableName) # <<>>
          /\ Cardinality(Invocations(id)) = 2
          /\ Cardinality(SuccessesOf(id)) = 2
          /\ \E p \in SuccessesOf(id) : \E q \in SuccessesOf(id) :
                events[p].input # events[q].input
          /\ Len(SelectSeq(writes, LAMBDA w : w.k = Trim(DataOf(id).outputVariableName))) = 2

-----------------------------------------------------------------------------
\* an extraction made earlier in the run stored a value under name
Available(name) ==
    \E p \in Pos :
       /\ events[p].e = "success"
       /\ Written(Declared(DataOf(events[p].node), events[p].out), name)

\* the names the resolution step of a node looks up
References(d) ==
    {d.prompt[i].name : i \in {j \in 1..Len(d.prompt) : d.prompt[j].ph}}
       \cup {d.apiUrl[i].name : i \in {j \in 1..Len(d.apiUrl) : d.apiUrl[j].ph}}
       \cup (IF d.inputs = <<>> /\ d.inputImageVariable # <<>>
             THEN {StripReference(d.inputImageVariable)} ELSE {})

\* the executions on the call chain of execution x, x included
RECURSIVE CallChain(_)
CallChain(x) ==
    IF x = 0 THEN {}
    ELSE {x} \cup CallChain(events[CHOOSE q \in Pos :
                                      events[q].e = "running" /\ events[q].x = x].by)

(* C27  The environment is shared across branches.  When an execution is at  *)
(* the start of its body, its resolution step succeeds exactly when every    *)
(* name it looks up was stored by an extraction made earlier in the run, by  *)
(* whatever node, on its call chain or not, and a prompt handed to the AI    *)
(* service carries the values stored last.  Otherwise the step throws the    *)
(* unresolved-variable error for a name it looks up that no earlier          *)
(* extraction stored, and the step that handles it sets the node to error    *)
(* with that message.                                                        *)
SharedEnvironment ==
    [][/\ AtBody =>
             LET d == NodeAt(Top.node).data IN
             IF \A name \in References(d) : Available(name)
             THEN /\ stack'[Len(stack)].pc # "thrown"
                  /\ CallStep => Called.prompt = Resolved(d.prompt)
             ELSE /\ stack'[Len(stack)].pc = "thrown"
                  /\ stack'[Len(stack)].site = "resolve"
                  /\ stack'[Len(stack)].err.kind = "VariableNotFound"
                  /\ stack'[Len(stack)].err.name \in References(d)
                  /\ ~Available(stack'[Len(stack)].err.name)
       /\ Throwing /\ Top.site = "resolve" =>
             /\ nodes'[FindNode(nodes, Top.node, 1)].data.status = "error"
             /\ nodes'[FindNode(nodes, Top.node, 1)].data.errorMessage = Top.err]_vars

\* the run is over; a node that looks up a name was executed twice: once
\* before the name was stored, ending in error, and once after a node that is
\* not on its call chain had stored it, ending in success
SharedEnvironmentWitness ==
    /\ Done
    /\ \E b \in Pos : \E a \in Pos : \E c \in Pos : \E q \in Pos : \E e \in Pos :
          /\ e < a /\ a < b /\ b < c
          /\ events[q].e = "running" /\ events[q].node = events[e].node
          /\ events[e].e = "error" /\ events[e].x = events[q].x
          /\ events[e].node = events[b].node
          /\ events[e].site = "resolve"
          /\ events[b].e = "running" /\ events[c].e = "success"
          /\ events[c].x = events[b].x
          /\ events[a].e = "success" /\ events[a].x \notin CallChain(events[b].x)
          /\ \E name \in References(DataOf(events[b].node)) :
                /\ Written(Declared(DataOf(events[a].node), events[a].out), name)
                /\ \A p \in 1..(b - 1) :
                      events[p].e = "success" /\ p # a =>
                         ~Written(Declared(DataOf(events[p].node), events[p].out), name)
                /\ NodeAt(events[e].node).data.status = "success"

-----------------------------------------------------------------------------
\* the positions of the nodes whose status a step sets, to the status given
SetTo(status) ==
    {i \in 1..Len(nodes) :
        /\ nodes'[i].data.status = status
        /\ \E q \in {Len(events')} :
              /\ Len(events') = Len(events) + 1
              /\ events'[q].e = status /\ events'[q].node = nodes[i].id}

(* C28  The error message goes with the error status.  Once run() has reset  *)
(* the nodes, a node has an errorMessage exactly when its status is error:   *)
(* the step that sets a node to running or to success leaves it without an   *)
(* errorMessage, whatever it had, and the step that sets a node to error     *)
(* gives it one.                                                             *)
MessageIffError ==
    [][/\ resets' > 0 =>
             \A i \in 1..Len(nodes') :
                nodes'[i].data.errorMessage # NoMessage <=> nodes'[i].data.status = "error"
       /\ \A i \in SetTo("running") \cup SetTo("success") :
             nodes'[i].data.errorMessage = NoMessage
       /\ \A i \in SetTo("error") :
             /\ nodes'[i].data.errorMessage # NoMessage
             /\ nodes'[i].data.errorMessage = Top.err]_vars

\* a node that ended in error earlier in the run is running again, without
\* an errorMessage, while another node is in error with one
MessageIffErrorWitness ==
    /\ resets > 0
    /\ \E i \in 1..Len(nodes) :
          /\ nodes[i].data.status = "running" /\ nodes[i].data.errorMessage = NoMessage
          /\ \E q \in Pos : events[q].e = "error" /\ events[q].node = nodes[i].id
    /\ \E i \in 1..Len(nodes) :
          nodes[i].data.status = "error" /\ nodes[i].data.errorMessage # NoMessage

-----------------------------------------------------------------------------
\* the output of the last success of node id among the first n transitions,
\* null when there is none
RECURSIVE LastOutput(_, _)
LastOutput(id, n) ==
    IF n = 0 THEN Null
    ELSE IF events[n].e = "success" /\ events[n].node = id THEN events[n].out
    ELSE LastOutput(id, n - 1)

(* C29  Only success replaces the output.  The step that sets a node to      *)
(* running or to error leaves its outputValue as it is, and the step that    *)
(* sets it to success makes the output of the execution its outputValue.  So *)
(* once run() has reset the nodes, the outputValue of a node, whatever its   *)
(* status, is the output of its last success in the run, and null when it    *)
(* has not succeeded in the run.                                             *)
OutputKeptUnlessSuccess ==
    [][/\ \A i \in SetTo("running") \cup SetTo("error") :
             nodes'[i].data.outputValue = nodes[i].data.outputValue
       /\ \A i \in SetTo("success") :
             nodes'[i].data.outputValue = Succeeded.out
       /\ \A i \in 1..Len(nodes) :
             nodes'[i].data.outputValue # nodes[i].data.outputValue =>
                i \in SetTo("success") \/ ResetStep
       /\ resets > 0 =>
             \A i \in 1..Len(nodes) :
                nodes[i].data.outputValue = LastOutput(nodes[i].id, Len(events))]_vars

\* a node that succeeded earlier in the run is in error, with the output of
\* that success still its outputValue, and a node that never succeeded is in
\* error with a null outputValue
OutputKeptUnlessSuccessWitness ==
    /\ resets > 0
    /\ \E i \in 1..Len(nodes) :
          /\ nodes[i].data.status = "error"
          /\ nodes[i].data.outputValue # Null
          /\ nodes[i].data.outputValue = LastOutput(nodes[i].id, Len(events))
    /\ \E i \in 1..Len(nodes) :
          /\ nodes[i].data.status = "error"
          /\ nodes[i].data.outputValue = Null
          /\ \A q \in Pos : events[q].node = nodes[i].id => events[q].e # "success"

-----------------------------------------------------------------------------
\* the nodes executed so far in the run
Executed == {events[q].node : q \in {p \in Pos : events[p].e = "running"}}

\* the edges whose target names no node
Dangling == {j \in 1..Len(edges) : ~Exists(edges[j].target)}

(* C30  Only what the first trigger reaches is executed.  run() starts one   *)
(* execution at most, that of the first trigger in node order; every other   *)
(* execution is of the target of an edge whose source succeeded before and   *)
(* called it, so every executed node is a node of the list.  From the reset  *)
(* on, a node that was not executed is idle with a null outputValue and no   *)
(* errorMessage, whatever its type.  An edge whose target names no node      *)
(* starts no execution and fails none: every failure is raised by the        *)
(* resolution or the dispatch of the failing node itself, and the run ends   *)
(* with the executions that succeeded last still in success.                 *)
OnlyReached ==
    /\ \A q \in Pos :
          events[q].e = "running" =>
             /\ Exists(events[q].node)
             /\ IF events[q].by = 0
                THEN /\ q = 1
                     /\ events[q].node = TriggerId
                ELSE /\ events[q].edge \notin Dangling
                     /\ edges[events[q].edge].target = events[q].node
                     /\ \E p \in 1..(q - 1) :
                           /\ events[p].e = "success" /\ events[p].x = events[q].by
                           /\ events[p].node = edges[events[q].edge].source
    /\ resets > 0 =>
          \A i \in 1..Len(nodes) :
             nodes[i].id \notin Executed =>
                /\ nodes[i].data.status = "idle"
                /\ nodes[i].data.outputValue = Null
                /\ nodes[i].data.errorMessage = NoMessage
    /\ resets = 0 => events = <<>> /\ nodes = nodes0
    /\ \A q \in Pos : events[q].e = "error" => events[q].site \in {"resolve", "dispatch"}
    /\ Done /\ HasTrigger =>
          /\ events # <<>>
          /\ \A i \in 1..Len(nodes) :
                nodes[i].id \in Executed =>
                   \E q \in Pos :
                      /\ events[q].node = nodes[i].id
                      /\ events[q].e = nodes[i].data.status
                      /\ events[q].e \in {"success", "error"}
                      /\ \A r \in (q + 1)..Len(events) : events[r].node # nodes[i].id

\* the run of the list with two triggers is over: the first trigger was
\* executed and is in success although its first edge leads to no node, the
\* node after it was executed, and the second trigger, which only an edge of
\* its own leaves, is idle with a null outputValue
OnlyReachedWitness ==
    /\ Done /\ nodes0 = TwoTriggerNodes
    /\ edges = <<[source |-> "n2", target |-> "gone"],
                 [source |-> "n2", target |-> "n1"],
                 [source |-> "n3", target |-> "n1"]>>
    /\ Executed = {"n1", "n2"}
    /\ NodeAt("n2").data.status = "success"
    /\ NodeAt("n1").data.status = "success"
    /\ NodeAt("n3").data.status = "idle" /\ NodeAt("n3").data.outputValue = Null
    /\ Cardinality(ExecutionsOf("n1")) = 1

====
